---- MODULE Spec2Model ----
(***************************************************************************)
(* A model of the graph-rewriting helpers of nengo/utils/builder.py:       *)
(* full_transform, find_all_io, _create_replacement_connection,            *)
(* remove_passthrough_nodes and split_ensemblearray.                       *)
(*                                                                         *)
(* Conventions.  Python lists are sequences; Python indices are 0-based    *)
(* and the model's are 1-based (index k here is index k-1 there).  A numpy *)
(* array is a record [ndim, v]: v holds the rows; a 0-d array is one row   *)
(* of one entry, a 1-d array is one row.  A slice is [all, idx]: all=TRUE  *)
(* is slice(None), otherwise idx is the index sequence it selects.         *)
(* Objects compare by identity in Python; here an object is a record with  *)
(* a unique name and a connection is a record with a unique id.            *)
(***************************************************************************)
EXTENDS Integers, Sequences, FiniteSets, TLC

None == "None"

----------------------------------------------------------------------------
(* numpy                                                                   *)

Scalar(x) == [ndim |-> 0, v |-> <<<<x>>>>]
Vector(s) == [ndim |-> 1, v |-> <<s>>]
Matrix(rows) == [ndim |-> 2, v |-> rows]

NRows(a) == Len(a.v)
NCols(a) == IF Len(a.v) = 0 THEN 0 ELSE Len(a.v[1])
ArraySize(a) == NRows(a) * NCols(a)

Zeros(m, n) == [i \in 1..m |-> [j \in 1..n |-> 0]]

AllSlice == [all |-> TRUE, idx |-> <<>>]
Idx(s) == [all |-> FALSE, idx |-> s]

\* np.arange(n)[sl]
Arange(n, sl) == IF sl.all THEN [i \in 1..n |-> i] ELSE sl.idx

InRange(s, n) == \A i \in 1..Len(s) : s[i] \in 1..n

\* a test that never finds a repeated index
repeated_inds_never(sl) == FALSE

\* np.unique(x).size != len(x)
repeated_inds(sl) ==
    /\ ~sl.all
    /\ Cardinality({sl.idx[i] : i \in 1..Len(sl.idx)}) # Len(sl.idx)

Max2(a, b) == IF a >= b THEN a ELSE b

\* new_transform[rows, cols] = t for index arrays rows, cols and a 0-d or
\* 1-d value t: the three broadcast to one length, entries are written in
\* order (a later write to the same place wins).
RECURSIVE ScatterPairs(_, _, _, _, _)
ScatterPairs(M, rows, cols, t, k) ==
    LET L == Max2(Len(rows), Len(cols)) IN
    IF k > L THEN M
    ELSE LET r == IF Len(rows) = 1 THEN rows[1] ELSE rows[k]
             c == IF Len(cols) = 1 THEN cols[1] ELSE cols[k]
             x == IF Len(t) = 1 THEN t[1] ELSE t[k]
         IN ScatterPairs([M EXCEPT ![r][c] = x], rows, cols, t, k + 1)

Broadcasts(n, L) == n = L \/ n = 1

\* rows_transform = np.array(new_transform[post_slice]);
\* rows_transform[:, pre_slice] = transform;
\* new_transform[post_slice] = rows_transform
RECURSIVE PlaceRows(_, _, _, _, _)
PlaceRows(M, rows, cols, T, i) ==
    IF i > Len(rows) THEN M
    ELSE LET Ti == IF Len(T) = 1 THEN T[1] ELSE T[i]
             old == M[rows[i]]
             new == [j \in 1..Len(old) |->
                       IF \E q \in 1..Len(cols) : cols[q] = j
                       THEN LET q == CHOOSE q \in 1..Len(cols) : cols[q] = j
                            IN IF Len(Ti) = 1 THEN Ti[1] ELSE Ti[q]
                       ELSE 0]
         IN PlaceRows([M EXCEPT ![rows[i]] = new], rows, cols, T, i + 1)

\* np.dot for 0-d and 2-d operands
MatMul(A, B) ==
    [i \in 1..Len(A) |->
        [j \in 1..(IF Len(B) = 0 THEN 0 ELSE Len(B[1])) |->
            LET RECURSIVE Sum(_)
                Sum(k) == IF k = 0 THEN 0 ELSE A[i][k] * B[k][j] + Sum(k - 1)
            IN Sum(Len(B))]]

Scale(x, A) == [i \in 1..Len(A) |-> [j \in 1..Len(A[i]) |-> x * A[i][j]]]

dot(a, b) ==
    IF a.ndim = 0 THEN [ndim |-> b.ndim, v |-> Scale(a.v[1][1], b.v)]
    ELSE IF b.ndim = 0 THEN [ndim |-> a.ndim, v |-> Scale(b.v[1][1], a.v)]
    ELSE Matrix(MatMul(a.v, b.v))

\* a zero test that overlooks 0-d arrays
AllZero_2d_only(a) ==
    a.ndim = 2 /\ \A i \in 1..Len(a.v) : \A j \in 1..Len(a.v[i]) : a.v[i][j] = 0

\* np.all(transform == 0)
AllZero(a) == \A i \in 1..Len(a.v) : \A j \in 1..Len(a.v[i]) : a.v[i][j] = 0

----------------------------------------------------------------------------
(* The object model the helpers consume                                    *)

Ensemble(name, dims) ==
    [name |-> name, type |-> "Ensemble", output |-> "n/a",
     size_in |-> dims, size_out |-> dims]

\* nengo.Node(size_in=n): no output given, a passthrough node
PassthroughNode(name, n) ==
    [name |-> name, type |-> "Node", output |-> None,
     size_in |-> n, size_out |-> n]

\* a Node with an output function
FunctionNode(name, nin, nout) ==
    [name |-> name, type |-> "Node", output |-> "callable",
     size_in |-> nin, size_out |-> nout]

\* conn.function_info.size
FunctionSize(f) == IF f = None THEN 0 ELSE 2

SliceLen(sl, n) == IF sl.all THEN n ELSE Len(sl.idx)

\* conn.size_mid and conn.size_out
size_mid(conn) ==
    IF conn.function # None THEN FunctionSize(conn.function)
    ELSE SliceLen(conn.pre_slice, conn.pre_obj.size_out)
size_out(conn) == SliceLen(conn.post_slice, conn.post_obj.size_in)

\* nengo.Connection(pre, post, synapse=, transform=, function=)
Connection(id, pre_obj, pre_slice, post_obj, post_slice, synapse, transform, function) ==
    [id |-> id, pre_obj |-> pre_obj, pre_slice |-> pre_slice,
     post_obj |-> post_obj, post_slice |-> post_slice,
     synapse |-> synapse, transform |-> transform, function |-> function]

----------------------------------------------------------------------------
(* full_transform                                                          *)

FtOk(a) == [err |-> "none", a |-> a]
FtErr(e) == [err |-> e, a |-> Scalar(0)]

\* the transform placed into the zero matrix of shape (size_o, size_in)
ft_place(transform, pre_slice, post_slice, size_in, size_o, rows, cols, allow_scalars) ==
    IF pre_slice.all /\ post_slice.all /\ transform.ndim = 2
        THEN FtOk(transform)
    ELSE IF pre_slice.all /\ post_slice.all
            /\ ArraySize(transform) = 1 /\ allow_scalars
        THEN FtOk(transform)
    ELSE IF transform.ndim < 2 THEN
        IF ~(InRange(rows, size_o) /\ InRange(cols, size_in))
            THEN FtErr("IndexError")
        ELSE IF ~(Broadcasts(Len(rows), Max2(Len(rows), Len(cols)))
                  /\ Broadcasts(Len(cols), Max2(Len(rows), Len(cols)))
                  /\ Broadcasts(NCols(transform), Max2(Len(rows), Len(cols))))
            THEN FtErr("IndexError")
        ELSE FtOk(Matrix(ScatterPairs(Zeros(size_o, size_in), rows, cols,
                                      transform.v[1], 1)))
    ELSE IF transform.ndim = 2 THEN
        IF repeated_inds(pre_slice)
            THEN FtErr("Input object selection has repeated indices")
        ELSE IF repeated_inds(post_slice)
            THEN FtErr("Output object selection has repeated indices")
        ELSE IF ~(InRange(rows, size_o) /\ InRange(cols, size_in))
            THEN FtErr("IndexError")
        ELSE IF ~(Broadcasts(NRows(transform), Len(rows))
                  /\ Broadcasts(NCols(transform), Len(cols)))
            THEN FtErr("ValueError: could not broadcast")
        ELSE FtOk(Matrix(PlaceRows(Zeros(size_o, size_in), rows, cols,
                                   transform.v, 1)))
    ELSE FtErr("Transforms with > 2 dims not supported")

full_transform(conn, slice_pre, slice_post, allow_scalars) ==
    CHOOSE r \in
      { ft_place(conn.transform, pre_slice, post_slice, size_in, size_o,
                 Arange(size_o, post_slice), Arange(size_in, pre_slice), allow_scalars) :
          pre_slice \in {IF slice_pre THEN conn.pre_slice ELSE AllSlice},
          post_slice \in {IF slice_post THEN conn.post_slice ELSE AllSlice},
          size_in \in {IF slice_pre
                   THEN (IF conn.function = None THEN conn.pre_obj.size_out
                         ELSE FunctionSize(conn.function))
                   ELSE size_mid(conn)},
          size_o \in {IF slice_post THEN conn.post_obj.size_in ELSE size_out(conn)} } : TRUE

----------------------------------------------------------------------------
(* objs_and_connections                                                    *)

\* the nodes listed before the ensembles
own_objs_nodes_first(network) == network.nodes \o network.ensembles

\* list(network.ensembles + network.nodes)
own_objs(network) == network.ensembles \o network.nodes

\* objs.extend(subobjs); connections.extend(subconnections)
extend(acc, sub) ==
    [objs |-> acc.objs \o sub.objs,
     connections |-> acc.connections \o sub.connections]

RECURSIVE objs_and_connections(_)
RECURSIVE for_subnetwork(_, _, _)

\* for subnetwork in network.networks, from the i-th on
for_subnetwork(network, i, acc) ==
    IF i > Len(network.networks) THEN acc
    ELSE for_subnetwork(network, i + 1,
                        extend(acc, objs_and_connections(network.networks[i])))

objs_and_connections(network) ==
    for_subnetwork(network, 1,
                   [objs |-> own_objs(network),
                    connections |-> network.connections])

----------------------------------------------------------------------------
(* find_all_io                                                             *)

ObjNames ==
    {"E1", "N1", "P", "Q", "P3", "P4", "e0", "e1", "e2", "e3", "e4",
     "input", "input0", "input1", "output", "output0", "output1",
     "square", "square0", "square1",
     "b.e0", "b.e1", "b.e2", "b.e3", "b.e4",
     "b.input", "b.input0", "b.input1", "b.output", "b.output0", "b.output1"}

EmptyIO == [o \in ObjNames |-> <<>>]

RECURSIVE find_all_io_loop(_, _, _, _)
find_all_io_loop(conns, k, inputs, outputs) ==
    IF k > Len(conns) THEN [inputs |-> inputs, outputs |-> outputs]
    ELSE LET c == conns[k] IN
         find_all_io_loop(conns, k + 1,
            [inputs EXCEPT ![c.post_obj.name] = Append(@, c)],
            [outputs EXCEPT ![c.pre_obj.name] = Append(@, c)])

\* the lists built with each connection put in front
find_all_io_prepending(conns) ==
    find_all_io_loop([k \in 1..Len(conns) |-> conns[Len(conns) + 1 - k]], 1,
                     EmptyIO, EmptyIO)

find_all_io(conns) == find_all_io_loop(conns, 1, EmptyIO, EmptyIO)

----------------------------------------------------------------------------
(* _create_replacement_connection                                          *)

NoConn ==
    Connection(0, Ensemble("E1", 2), AllSlice, Ensemble("E1", 2), AllSlice,
               None, Scalar(0), None)

Raised(e) == [kind |-> e, c |-> NoConn]

FilterError == "NotImplementedError: Cannot merge two filters"
FunctionError == "Exception: Cannot remove a Node with a function being computed on it"
FeedbackError == "Exception: Cannot remove a Node with feedback"
RemoveError == "ValueError: list.remove(x): x not in list"

\* a merge that forgets the synapse of c_out
merged_synapse_in_only(c_in, c_out) ==
    IF c_in.synapse = None THEN None
    ELSE IF c_out.synapse = None THEN c_in.synapse
    ELSE FilterError

\* determine the filter for the new Connection
merged_synapse(c_in, c_out) ==
    IF c_in.synapse = None THEN c_out.synapse
    ELSE IF c_out.synapse = None THEN c_in.synapse
    ELSE FilterError

\* a check that raises only when both connections carry a function
function_conflict_both(c_in, c_out) == c_in.function # None /\ c_out.function # None

\* the function check: raises when it answers TRUE
function_conflict(c_in, c_out) == c_out.function # None

\* the product taken in the other order
combined_transform_swapped(t_out, t_in) == dot(t_in, t_out)

\* np.dot(full_transform(c_out), full_transform(c_in))
combined_transform(t_out, t_in) == dot(t_out, t_in)

\* the endpoints of the replacement
replacement_pre(c_in, c_out) == c_in.pre_obj
replacement_post(c_in, c_out) == c_out.post_obj

\* Returns [kind, c]: kind "conn" with the new Connection c, kind "None"
\* (the combined transform is 0), or the exception raised.
create_replacement_connection(c_in, c_out, id) ==
    LET synapse == merged_synapse(c_in, c_out) IN
    IF synapse = FilterError THEN Raised(FilterError)
    ELSE IF function_conflict(c_in, c_out) THEN Raised(FunctionError)
    ELSE LET t_out == full_transform(c_out, TRUE, TRUE, TRUE)
             t_in == full_transform(c_in, TRUE, TRUE, TRUE)
         IN IF t_out.err # "none" THEN Raised(t_out.err)
            ELSE IF t_in.err # "none" THEN Raised(t_in.err)
            ELSE LET transform == combined_transform(t_out.a, t_in.a) IN
                 IF AllZero(transform) THEN [kind |-> "None", c |-> NoConn]
                 ELSE [kind |-> "conn",
                       c |-> Connection(id, replacement_pre(c_in, c_out), AllSlice,
                                        replacement_post(c_in, c_out), AllSlice,
                                        synapse, transform, c_in.function)]

----------------------------------------------------------------------------
(* remove_passthrough_nodes                                                *)

Contains(seq, x) == \E i \in 1..Len(seq) : seq[i] = x

\* list.remove(x) on a list that holds x: the first occurrence goes
RemoveFirst(seq, x) ==
    LET i == CHOOSE i \in 1..Len(seq) :
                 seq[i] = x /\ \A j \in 1..(i - 1) : seq[j] # x
    IN SubSeq(seq, 1, i - 1) \o SubSeq(seq, i + 1, Len(seq))

\* result_conn = connections: no copy, the caller's list itself
ResultConnAlias == "connections"

\* The lists the call works on.  `objs` and `connections` are the caller's
\* lists; list(objs) and list(connections) are new lists.
ResultObjsList == "result_objs"
ResultConnList == "result_conn"

\* a test that takes every Node for a passthrough node
is_passthrough_any_node(obj) == obj.type = "Node"

\* isinstance(obj, nengo.Node) and obj.output is None
is_passthrough(obj) == obj.type = "Node" /\ obj.output = None

Fail(s, e) == [s EXCEPT !.status = e]

\* for c in inputs[obj]: result_conn.remove(c); outputs[c.pre_obj].remove(c)
RECURSIVE remove_inputs(_, _, _)
remove_inputs(s, obj, k) ==
    IF s.status # "ok" \/ k > Len(s.inputs[obj.name]) THEN s
    ELSE LET c == s.inputs[obj.name][k] IN
         IF ~Contains(s.heap[ResultConnList], c) THEN Fail(s, RemoveError)
         ELSE IF ~Contains(s.outputs[c.pre_obj.name], c)
              THEN Fail([s EXCEPT !.heap[ResultConnList] = RemoveFirst(@, c)],
                        RemoveError)
         ELSE remove_inputs(
                [s EXCEPT !.heap[ResultConnList] = RemoveFirst(@, c),
                          !.outputs[c.pre_obj.name] = RemoveFirst(@, c)],
                obj, k + 1)

\* for c in outputs[obj]: result_conn.remove(c); inputs[c.post_obj].remove(c)
RECURSIVE remove_outputs(_, _, _)
remove_outputs(s, obj, k) ==
    IF s.status # "ok" \/ k > Len(s.outputs[obj.name]) THEN s
    ELSE LET c == s.outputs[obj.name][k] IN
         IF ~Contains(s.heap[ResultConnList], c) THEN Fail(s, RemoveError)
         ELSE IF ~Contains(s.inputs[c.post_obj.name], c)
              THEN Fail([s EXCEPT !.heap[ResultConnList] = RemoveFirst(@, c)],
                        RemoveError)
         ELSE remove_outputs(
                [s EXCEPT !.heap[ResultConnList] = RemoveFirst(@, c),
                          !.inputs[c.post_obj.name] = RemoveFirst(@, c)],
                obj, k + 1)

\* the new connection kept, but not put in the adjacency lists
append_replacement_unlisted(s, c) ==
    [s EXCEPT !.heap[ResultConnList] = Append(@, c),
              !.next_id = @ + 1]

\* result_conn.append(c); outputs[c.pre_obj].append(c);
\* inputs[c.post_obj].append(c)
append_replacement(s, c) ==
    [s EXCEPT !.heap[ResultConnList] = Append(@, c),
              !.outputs[c.pre_obj.name] = Append(@, c),
              !.inputs[c.post_obj.name] = Append(@, c),
              !.next_id = @ + 1]

\* for c_out in outputs[obj]: c = create_connection_fn(c_in, c_out); ...
RECURSIVE replace_pairs(_, _, _, _)
\* c = create_connection_fn(c_in, c_out); if c is not None: ...append(c)
replace_pair(s, obj, c_in, c_out, r, j) ==
    IF r.kind = "None" THEN replace_pairs(s, obj, c_in, j + 1)
    ELSE IF r.kind # "conn" THEN Fail(s, r.kind)
    ELSE replace_pairs(append_replacement(s, r.c), obj, c_in, j + 1)

LogPair(s, obj, c_in, c_out, r) ==
    [s EXCEPT !.pairs = Append(@,
        [node |-> obj.name, c_in |-> c_in, c_out |-> c_out,
         kind |-> r.kind, c |-> r.c])]

replace_pairs(s, obj, c_in, j) ==
    IF s.status # "ok" \/ j > Len(s.outputs[obj.name]) THEN s
    ELSE CHOOSE t \in
           { replace_pair(LogPair(s, obj, c_in, c_out, r), obj, c_in, c_out, r, j) :
               c_out \in {s.outputs[obj.name][j]},
               r \in {create_replacement_connection(
                         c_in, s.outputs[obj.name][j], s.next_id)} } : TRUE

\* for c_in in inputs[obj]: the feedback check, then the pairs of c_in
RECURSIVE replace_connections(_, _, _)
replace_connections(s, obj, i) ==
    IF s.status # "ok" \/ i > Len(s.inputs[obj.name]) THEN s
    ELSE LET c_in == s.inputs[obj.name][i] IN
         IF c_in.pre_obj = obj THEN Fail(s, FeedbackError)
         ELSE replace_connections(replace_pairs(s, obj, c_in, 1), obj, i + 1)

\* the body of `for obj in objs` for a passthrough Node
remove_node(s, obj) ==
    IF ~Contains(s.heap[ResultObjsList], obj) THEN Fail(s, RemoveError)
    ELSE LET s0 == [s EXCEPT !.heap[ResultObjsList] = RemoveFirst(@, obj),
                             !.visits = Append(@,
                                 [node |-> obj.name,
                                  In |-> s.inputs[obj.name],
                                  Out |-> s.outputs[obj.name]])]
             s1 == remove_inputs(s0, obj, 1)
             s2 == remove_outputs(s1, obj, 1)
         IN replace_connections(s2, obj, 1)

RECURSIVE for_obj_in_objs(_, _)
for_obj_in_objs(s, i) ==
    IF s.status # "ok" \/ i > Len(s.heap["objs"]) THEN s
    ELSE LET obj == s.heap["objs"][i] IN
         for_obj_in_objs(IF is_passthrough(obj) THEN remove_node(s, obj) ELSE s,
                         i + 1)

\* The whole call.  heap holds the four lists after the call; visits and
\* pairs record, per removed node and per (c_in, c_out) pair, what was done.
remove_passthrough_nodes(objs_arg, connections_arg) ==
    LET io == find_all_io(connections_arg)
        lists == [n \in {"objs", "connections", "result_objs", "result_conn"} |->
                    IF n \in {"objs", "result_objs"} THEN objs_arg
                    ELSE connections_arg]
    IN for_obj_in_objs(
         [heap |-> lists, inputs |-> io.inputs, outputs |-> io.outputs,
          next_id |-> Len(connections_arg) + 1, status |-> "ok",
          visits |-> <<>>, pairs |-> <<>>], 1)

----------------------------------------------------------------------------
(* split_ensemblearray: the EnsembleArray and its parent Network           *)

n_splits == 2
preserve_zeros == TRUE

\* an attribute that holds None
NoObj ==
    [name |-> None, type |-> None, output |-> None, size_in |-> 0, size_out |-> 0]

\* conn.pre and conn.post: the object itself, or a sliced view of it
View(obj, sl) == [obj |-> obj, slice |-> sl]
pre(c) == View(c.pre_obj, c.pre_slice)
post(c) == View(c.post_obj, c.post_slice)

\* the slice [a:b] of a Python sequence, 0-based, as the indices a+1..b
Range(a, b) == Idx([k \in 1..(b - a) |-> a + k])

\* seq[a:b]
PySlice(seq, a, b) ==
    [k \in 1..((IF b < Len(seq) THEN b ELSE Len(seq)) - a) |-> seq[a + k]]

RECURSIVE SumSeq(_, _)
SumSeq(seq, k) == IF k = 0 THEN 0 ELSE seq[k] + SumSeq(seq, k - 1)

\* np.cumsum behind a leading 0: offsets[i + 1] is Python's indices[i]
Offsets(sizes) == [k \in 1..(Len(sizes) + 1) |-> SumSeq(sizes, k - 1)]

\* sizes[j] += 1; j = (j + 1) % len(sizes), for i in range(n_ensembles)
RECURSIVE distribute(_, _, _, _)
distribute(sizes, i, j, n_ensembles) ==
    IF i >= n_ensembles THEN sizes
    ELSE distribute([sizes EXCEPT ![j + 1] = @ + 1], i + 1,
                    (j + 1) % Len(sizes), n_ensembles)

\* the larger partitions last
partition_sizes_larger_last(n_ensembles) ==
    [k \in 1..n_splits |->
        (n_ensembles \div n_splits)
          + (IF n_splits - k < n_ensembles % n_splits THEN 1 ELSE 0)]

partition_sizes(n_ensembles) ==
    distribute([k \in 1..n_splits |-> 0], 0, 0, n_ensembles)

\* "%s%d" % (label, i)
Label(label, i) == label \o ToString(i)

\* nengo.Probe(target, label=, synapse=)
Probe(target, label, synapse) ==
    [target |-> target, label |-> label, synapse |-> synapse]

\* nengo.Connection refuses a 2-d transform whose shape is not
\* (size of post, size of what pre delivers)
ShapeError == "ValueError: transform shape does not match pre and post"
valid_connection(c) ==
    c.transform.ndim < 2
    \/ (NRows(c.transform) = size_out(c) /\ NCols(c.transform) = size_mid(c))

ArrayTypeError == "ValueError: 'array' must be an EnsembleArray"
ParentError == "ValueError: 'parent' must be parent network"
CountError == "ValueError: Number of ensembles does not match"
InputError == "ValueError: Extra connections from array input"
OutputError == "ValueError: Extra connections to array output"
AssertionError == "AssertionError"

ea_ensemble_set(array) ==
    {View(array.ea_ensembles[k], AllSlice) : k \in 1..Len(array.ea_ensembles)}

\* an output check that finds nothing wrong
output_mismatch_never(array, inputs, name) == FALSE

\* the connections found at one output node are not one per ensemble
output_mismatch(array, inputs, name) ==
    \/ Len(inputs[array.outputs[name].name]) # array.n_ensembles
    \/ {pre(inputs[array.outputs[name].name][k]) :
           k \in 1..Len(inputs[array.outputs[name].name])} # ea_ensemble_set(array)

\* the checks made before anything is changed: "ok" or the error raised
split_checks(array, parent, inputs, outputs) ==
    IF array.type # "EnsembleArray" THEN ArrayTypeError
    ELSE IF parent.type # "Network" \/ ~Contains(parent.networks, array.label)
        THEN ParentError
    ELSE IF array.n_ensembles # Len(array.ea_ensembles) THEN CountError
    ELSE IF \/ Len(outputs[array.input.name]) # array.n_ensembles
            \/ {post(outputs[array.input.name][k]) :
                   k \in 1..Len(outputs[array.input.name])} # ea_ensemble_set(array)
        THEN InputError
    ELSE IF \E k \in 1..Len(array.output_sizes) :
               output_mismatch(array, inputs, array.output_sizes[k].name)
        THEN OutputError
    ELSE "ok"

\* with array: nengo.Node(size_in=size * D, label="%s%d" % (array.input.label, i))
new_input_nodes(array, sizes) ==
    [i \in 1..Len(sizes) |->
        PassthroughNode(Label(array.input.name, i - 1),
                        sizes[i] * array.dimensions_per_ensemble)]

\* conn.pre_obj is array.input and conn.post in array.ea_ensembles
is_old_input_connection(array, conn) ==
    conn.pre_obj = array.input /\ post(conn) \in ea_ensemble_set(array)

\* every ensemble in the first partition
PartitionOf_first(offsets, k) == 1

\* the partition (1-based) that holds the ensemble at 1-based position k
PartitionOf(offsets, k) ==
    CHOOSE i \in 1..(Len(offsets) - 1) : offsets[i] < k /\ k <= offsets[i + 1]

\* nengo.Connection(inp[j*D:(j+1)*D], ens, synapse=None), for every partition
\* i and every ensemble j of it, in that order
new_input_connections(array, offsets, new_inputs, first_id) ==
    [k \in 1..offsets[Len(offsets)] |->
        Connection(first_id + k - 1,
                   new_inputs[PartitionOf(offsets, k)],
                   Range((k - offsets[PartitionOf(offsets, k)] - 1)
                             * array.dimensions_per_ensemble,
                         (k - offsets[PartitionOf(offsets, k)])
                             * array.dimensions_per_ensemble),
                   array.ea_ensembles[k], AllSlice, None, Scalar(1), None)]

\* new input nodes, the old fan-out removed, the new fan-out made
rewire_inputs(s, offsets, new_inputs) ==
    [s EXCEPT
        !.array.nodes = @ \o new_inputs,
        !.array.connections =
            SelectSeq(@, LAMBDA c : ~is_old_input_connection(s.array, c))
            \o new_input_connections(s.array, offsets, new_inputs, s.next_id),
        !.next_id = @ + offsets[Len(offsets)]]

\* for probe in parent.probes[:]: if probe.target is target: remove it and
\* make one probe per new node
\* the probes of the target are taken off and nothing is put in their place
replace_probes_dropped(probes, copy, k, target, new_nodes) ==
    SelectSeq(probes, LAMBDA p : p.target # target)

RECURSIVE replace_probes(_, _, _, _, _)
replace_probes(probes, copy, k, target, new_nodes) ==
    IF k > Len(copy) THEN probes
    ELSE IF copy[k].target = target
        THEN replace_probes(
               RemoveFirst(probes, copy[k])
               \o [i \in 1..Len(new_nodes) |->
                      Probe(new_nodes[i], Label(copy[k].label, i - 1),
                            copy[k].synapse)],
               copy, k + 1, target, new_nodes)
    ELSE replace_probes(probes, copy, k + 1, target, new_nodes)

\* the parent and the adjacency lists take a new connection; nengo.Connection
\* raises on a transform of the wrong shape
register_connection(s, new_conn) ==
    IF ~valid_connection(new_conn) THEN Fail(s, ShapeError)
    ELSE [s EXCEPT !.parent.connections = Append(@, new_conn),
                   !.inputs[new_conn.post_obj.name] = Append(@, new_conn),
                   !.outputs[new_conn.pre_obj.name] = Append(@, new_conn),
                   !.next_id = @ + 1,
                   !.log[Len(s.log)].new = Append(@, new_conn)]

\* a block that always starts at the first row
row_block_first(transform, i0, i1) == Matrix(PySlice(transform.v, 0, i1 - i0))

\* transform[i0*D:i1*D, :]
row_block(transform, i0, i1) == Matrix(PySlice(transform.v, i0, i1))

\* for i, inp in enumerate(new_inputs): the connection c_in.pre -> inp
RECURSIVE connect_to_new_inputs(_, _, _, _, _, _)
connect_to_new_inputs(s, c_in, transform, offsets, new_inputs, i) ==
    IF s.status # "ok" \/ i > Len(new_inputs) THEN s
    ELSE IF ~(preserve_zeros
              \/ ~AllZero(row_block(transform,
                     offsets[i] * s.array.dimensions_per_ensemble,
                     offsets[i + 1] * s.array.dimensions_per_ensemble)))
        THEN connect_to_new_inputs(s, c_in, transform, offsets, new_inputs, i + 1)
    ELSE connect_to_new_inputs(
           register_connection(s,
               Connection(s.next_id, c_in.pre_obj, c_in.pre_slice,
                          new_inputs[i], AllSlice, c_in.synapse,
                          row_block(transform,
                              offsets[i] * s.array.dimensions_per_ensemble,
                              offsets[i + 1] * s.array.dimensions_per_ensemble),
                          c_in.function)),
           c_in, transform, offsets, new_inputs, i + 1)

\* the body of `for c_in in inputs[array.input]` once c_in is off the lists
split_input(s, c_in, t, offsets, new_inputs) ==
    IF t.err # "none" THEN Fail(s, t.err)
    ELSE connect_to_new_inputs(s, c_in, t.a, offsets, new_inputs, 1)

StartLog(s, side, c) ==
    [s EXCEPT !.log = Append(@, [side |-> side, c |-> c, new |-> <<>>])]

\* for c_in in inputs[array.input]
RECURSIVE split_inputs(_, _, _, _, _)
split_inputs(s, c_ins, k, offsets, new_inputs) ==
    IF s.status # "ok" \/ k > Len(c_ins) THEN s
    ELSE IF ~Contains(s.parent.connections, c_ins[k]) THEN Fail(s, RemoveError)
    ELSE split_inputs(
           CHOOSE r \in
             { split_input(
                 StartLog([s EXCEPT
                     !.parent.connections = RemoveFirst(@, c_ins[k]),
                     !.outputs[c_ins[k].pre_obj.name] = RemoveFirst(@, c_ins[k])],
                     "in", c_ins[k]),
                 c_ins[k], t, offsets, new_inputs) :
               t \in {full_transform(c_ins[k], FALSE, TRUE, FALSE)} } : TRUE,
           c_ins, k + 1, offsets, new_inputs)

\* array.nodes.remove(array.input); array.input = None
remove_old_input(s) ==
    IF s.status # "ok" THEN s
    ELSE [s EXCEPT !.array.nodes = RemoveFirst(@, s.array.input),
                   !.array.input = NoObj]

\* lines 282-340: everything done about the input node
split_input_side(s, offsets, new_inputs) ==
    remove_old_input(
      split_inputs(
        [rewire_inputs(s, offsets, new_inputs) EXCEPT !.parent.probes =
            replace_probes(@, @, 1, s.array.input, new_inputs)],
        s.inputs[s.array.input.name], 1, offsets, new_inputs))

\* with array: nengo.Node(size_in=sum(i_sizes), label="%s%d" % (old_output.label, i))
new_output_node(old_output, i_sizes, i) ==
    PassthroughNode(Label(old_output.name, i - 1), SumSeq(i_sizes, Len(i_sizes)))

new_output_nodes(old_output, output_sizes, offsets) ==
    [i \in 1..n_splits |->
        new_output_node(old_output,
                        PySlice(output_sizes, offsets[i], offsets[i + 1]), i)]

\* [c for c in array.connections if c.pre is e and c.post_obj is old_output]
old_conns(array, e, old_output) ==
    SelectSeq(array.connections,
              LAMBDA c : pre(c) = View(e, AllSlice) /\ c.post_obj = old_output)

\* the connection of ensemble e moves from old_output to new_output[j0:j1]
move_output_connection(s, found, e, new_output, j0, j1) ==
    IF Len(found) # 1 THEN Fail(s, AssertionError)
    ELSE CHOOSE r \in
           { IF ~valid_connection(c)
             THEN Fail([s EXCEPT !.array.connections = RemoveFirst(@, found[1])],
                       ShapeError)
             ELSE [s EXCEPT !.array.connections = Append(RemoveFirst(@, found[1]), c),
                            !.next_id = @ + 1] :
             c \in {Connection(s.next_id, e, AllSlice, new_output, Range(j0, j1),
                               found[1].synapse, found[1].transform,
                               found[1].function)} } : TRUE

\* for j, e in enumerate(array.ea_ensembles[i0:i1])
RECURSIVE connect_ensembles(_, _, _, _, _, _, _)
connect_ensembles(s, old_output, new_output, i_sizes, i0, i1, j) ==
    IF s.status # "ok" \/ j > Len(PySlice(s.array.ea_ensembles, i0, i1)) THEN s
    ELSE connect_ensembles(
           move_output_connection(s,
               old_conns(s.array, s.array.ea_ensembles[i0 + j], old_output),
               s.array.ea_ensembles[i0 + j], new_output,
               SumSeq(i_sizes, j - 1), SumSeq(i_sizes, j)),
           old_output, new_output, i_sizes, i0, i1, j + 1)

\* for i in range(n_splits): the new output node and its ensembles
RECURSIVE make_new_outputs(_, _, _, _, _, _)
make_new_outputs(s, old_output, output_sizes, offsets, new_outputs, i) ==
    IF s.status # "ok" \/ i > n_splits THEN s
    ELSE make_new_outputs(
           connect_ensembles(
               [s EXCEPT !.array.nodes = Append(@, new_outputs[i])],
               old_output, new_outputs[i],
               PySlice(output_sizes, offsets[i], offsets[i + 1]),
               offsets[i], offsets[i + 1], 1),
           old_output, output_sizes, offsets, new_outputs, i + 1)

\* transform[:, i0:i1]
col_block(transform, i0, i1) ==
    Matrix([r \in 1..NRows(transform) |-> PySlice(transform.v[r], i0, i1)])

\* for i, out in enumerate(new_outputs): the connection out -> c_out.post
RECURSIVE connect_from_new_outputs(_, _, _, _, _, _)
connect_from_new_outputs(s, c_out, transform, output_inds, new_outputs, i) ==
    IF s.status # "ok" \/ i > Len(new_outputs) THEN s
    ELSE IF ~(preserve_zeros
              \/ ~AllZero(col_block(transform, output_inds[i], output_inds[i + 1])))
        THEN connect_from_new_outputs(s, c_out, transform, output_inds,
                                      new_outputs, i + 1)
    ELSE connect_from_new_outputs(
           register_connection(s,
               Connection(s.next_id, new_outputs[i], AllSlice,
                          c_out.post_obj, c_out.post_slice, c_out.synapse,
                          col_block(transform, output_inds[i], output_inds[i + 1]),
                          None)),
           c_out, transform, output_inds, new_outputs, i + 1)

\* the body of `for c_out in outputs[old_output]` once c_out is off the lists
split_output(s, c_out, t, output_inds, new_outputs) ==
    IF t.err # "none" THEN Fail(s, t.err)
    ELSE connect_from_new_outputs(s, c_out, t.a, output_inds, new_outputs, 1)

\* for c_out in outputs[old_output]
RECURSIVE split_outputs(_, _, _, _, _)
split_outputs(s, c_outs, k, output_inds, new_outputs) ==
    IF s.status # "ok" \/ k > Len(c_outs) THEN s
    ELSE IF c_outs[k].function # None THEN Fail(s, AssertionError)
    ELSE IF ~Contains(s.parent.connections, c_outs[k]) THEN Fail(s, RemoveError)
    ELSE split_outputs(
           CHOOSE r \in
             { split_output(
                 StartLog([s EXCEPT
                     !.parent.connections = RemoveFirst(@, c_outs[k]),
                     !.inputs[c_outs[k].post_obj.name] = RemoveFirst(@, c_outs[k])],
                     "out", c_outs[k]),
                 c_outs[k], t, output_inds, new_outputs) :
               t \in {full_transform(c_outs[k], TRUE, TRUE, FALSE)} } : TRUE,
           c_outs, k + 1, output_inds, new_outputs)

\* array.nodes.remove(old_output); setattr(array, output_name, None)
remove_old_output(s, output_name) ==
    IF s.status # "ok" THEN s
    ELSE [s EXCEPT !.array.nodes = RemoveFirst(@, s.array.outputs[output_name]),
                   !.array.outputs[output_name] = NoObj]

\* output_inds: the offsets of [n.size_out for n in new_outputs]
split_output_external(s, old_output, new_outputs) ==
    IF s.status # "ok" THEN s
    ELSE split_outputs(
           [s EXCEPT !.parent.probes =
               replace_probes(@, @, 1, old_output, new_outputs)],
           s.outputs[old_output.name], 1,
           Offsets([i \in 1..Len(new_outputs) |-> new_outputs[i].size_out]),
           new_outputs)

\* the body of `for output_name in array.output_sizes`
split_output_side(s, output_name, old_output, output_sizes, offsets, new_outputs) ==
    remove_old_output(
      split_output_external(
        make_new_outputs(s, old_output, output_sizes, offsets, new_outputs, 1),
        old_output, new_outputs),
      output_name)

\* for output_name in array.output_sizes
RECURSIVE for_output_names(_, _, _)
for_output_names(s, offsets, k) ==
    IF s.status # "ok" \/ k > Len(s.array.output_sizes) THEN s
    ELSE for_output_names(
           split_output_side(s, s.array.output_sizes[k].name,
               s.array.outputs[s.array.output_sizes[k].name],
               s.array.output_sizes[k].sizes, offsets,
               new_output_nodes(s.array.outputs[s.array.output_sizes[k].name],
                                s.array.output_sizes[k].sizes, offsets)),
           offsets, k + 1)

\* what is done once the checks have passed
split_checked(s, offsets) ==
    for_output_names(
      split_input_side(s, offsets,
          new_input_nodes(s.array, partition_sizes(s.array.n_ensembles))),
      offsets, 1)

\* The whole call.  array and parent are the two networks after the call,
\* status is "ok" or the exception raised, and log records, per external
\* connection taken off, the connections made in its place.
split_start(array, parent, io, first_id) ==
    [array |-> array, parent |-> parent,
     inputs |-> io.inputs, outputs |-> io.outputs,
     next_id |-> first_id,
     status |-> split_checks(array, parent, io.inputs, io.outputs),
     log |-> <<>>]

split_ensemblearray(array, parent, first_id) ==
    CHOOSE r \in
      { IF s.status # "ok" THEN s
        ELSE split_checked(s, Offsets(partition_sizes(array.n_ensembles))) :
        s \in {split_start(array, parent,
                           find_all_io(parent.connections \o array.connections),
                           first_id)} } : TRUE

----------------------------------------------------------------------------
(* split_ensemblearrays: the hierarchy of networks                         *)

\* net.networks; an EnsembleArray holds no networks
SubNetworks(h, net) ==
    IF h.nets[net].type = "EnsembleArray" THEN <<>> ELSE h.nets[net].networks

\* if isinstance(net, nengo.networks.EnsembleArray): split_ensemblearray(net, network)
split_if_array(h, net, network) ==
    IF h.status # "ok" \/ h.nets[net].type # "EnsembleArray" THEN h
    ELSE CHOOSE r \in
           { [h EXCEPT !.nets[net] = s.array,
                       !.nets[network] = s.parent,
                       !.next_id = s.next_id,
                       !.status = s.status,
                       !.visited = Append(@, net)] :
             s \in {split_ensemblearray(h.nets[net], h.nets[network], h.next_id)} } : TRUE

\* for net in network.networks: split_ensemblearrays(net); ...
RECURSIVE split_ensemblearrays(_, _)
RECURSIVE for_net_in_networks(_, _, _)
for_net_in_networks(h, network, i) ==
    IF h.status # "ok" \/ i > Len(SubNetworks(h, network)) THEN h
    ELSE for_net_in_networks(
           split_if_array(split_ensemblearrays(h, SubNetworks(h, network)[i]),
                          SubNetworks(h, network)[i], network),
           network, i + 1)

split_ensemblearrays(h, network) == for_net_in_networks(h, network, 1)

----------------------------------------------------------------------------
(* The networks remove_passthrough_nodes is called on                      *)

\* at most this many connections are built before the call
MaxConns == 3

E1 == Ensemble("E1", 2)
N1 == FunctionNode("N1", 2, 2)
P == PassthroughNode("P", 2)
Q == PassthroughNode("Q", 2)

\* orders in which the flattened network may list its objects
ObjOrders == {<<E1, P, Q, N1>>, <<N1, Q, P, E1>>}

MatI == Matrix(<<<<1, 0>>, <<0, 1>>>>)
MatZ == Matrix(<<<<0, 0>>, <<0, 0>>>>)
MatA == Matrix(<<<<1, 0>>, <<1, 1>>>>)
MatN == Matrix(<<<<0, 1>>, <<0, 0>>>>)

Profile(t, pre_slice, post_slice, synapse, function) ==
    [transform |-> t, pre_slice |-> pre_slice, post_slice |-> post_slice,
     synapse |-> synapse, function |-> function]

ProfA == Profile(MatA, AllSlice, AllSlice, None, None)
ProfN == Profile(MatN, AllSlice, AllSlice, None, None)
ProfF == Profile(MatA, AllSlice, AllSlice, "s1", "f")

\* the connections a built network may hold: endpoints and what is carried
ConnChoices ==
    ({<<E1, P>>, <<P, Q>>, <<P, N1>>, <<Q, N1>>} \X {ProfA, ProfN, ProfF})
    \cup ({<<P, P>>, <<Q, P>>, <<E1, Q>>, <<E1, N1>>} \X {ProfA})

\* what the two connections of a single pair may carry
Shapes ==
    {<<MatI, AllSlice, AllSlice>>, <<MatZ, AllSlice, AllSlice>>,
     <<MatA, AllSlice, AllSlice>>, <<MatN, AllSlice, AllSlice>>,
     <<Scalar(2), AllSlice, AllSlice>>, <<Scalar(0), AllSlice, AllSlice>>,
     <<Scalar(3), Idx(<<2>>), Idx(<<1>>)>>,
     <<Vector(<<1, 2>>), AllSlice, AllSlice>>,
     <<Matrix(<<<<1, 2>>>>), AllSlice, Idx(<<2>>)>>}

PairProfiles ==
    {Profile(sh[1], sh[2], sh[3], syn, f) :
        sh \in Shapes, syn \in {None, "s1", "s2"}, f \in {None, "f"}}

MakeConnection(id, ends, pr) ==
    Connection(id, ends[1], pr.pre_slice, ends[2], pr.post_slice,
               pr.synapse, pr.transform, pr.function)

VARIABLES
    objs,           \* the caller's list of objects
    connections,    \* the caller's list of connections
    pc,             \* "build", then "returned" or "raised"
    error,          \* the exception raised, or None
    result_objs,    \* the returned objects
    result_conn,    \* the returned connections
    call,           \* what the call saw and did: the lists before it,
                    \* the nodes it removed and the pairs it composed
    array,          \* the EnsembleArray given to split_ensemblearray
    parent,         \* the Network that owns it
    split,          \* the build steps taken, the two networks as they were
                    \* before the call, and what the call replaced
    hierarchy,      \* the networks given to split_ensemblearrays, by label,
                    \* as they are and as they were before the call
    fcall,          \* one call of full_transform, find_all_io or
                    \* objs_and_connections: its arguments and its result
    cache           \* a DecoderCache: its directory, and what its last
                    \* operation did

vars == <<objs, connections, pc, error, result_objs, result_conn, call,
          array, parent, split, hierarchy, fcall, cache>>

tree_vars == <<hierarchy>>
pure_vars == <<fcall>>
cache_vars == <<cache>>

rpn_vars == <<objs, connections, result_objs, result_conn, call>>
split_vars == <<array, parent, split>>

NoCall == [objs_before |-> <<>>, connections_before |-> <<>>,
           visits |-> <<>>, pairs |-> <<>>]

\* no array is being split
NoNetwork == [type |-> "Network", networks |-> <<>>, connections |-> <<>>,
              probes |-> <<>>]
NoSplit == [built |-> 0, array_before |-> NoNetwork, parent_before |-> NoNetwork,
            log |-> <<>>]
\* no hierarchy is being rewritten
NoHierarchy == [nets |-> <<>>, before |-> <<>>, visited |-> <<>>]
\* no such call is being looked at
NoFcall == [fn |-> None]
\* no DecoderCache has been made
NoCache == [cache_dir |-> None]

Init ==
    /\ objs \in ObjOrders
    /\ connections = <<>>
    /\ pc = "build"
    /\ error = None
    /\ result_objs = <<>>
    /\ result_conn = <<>>
    /\ call = NoCall
    /\ array = NoNetwork
    /\ parent = NoNetwork
    /\ split = NoSplit
    /\ hierarchy = NoHierarchy
    /\ fcall = NoFcall
    /\ cache = NoCache

\* nengo.Connection(...) inside the network, before the rewrite
AddConnection ==
    /\ pc = "build"
    /\ Len(connections) < MaxConns
    /\ \E ch \in ConnChoices :
          connections' = Append(connections,
                                MakeConnection(Len(connections) + 1, ch[1], ch[2]))
    /\ UNCHANGED <<objs, pc, error, result_objs, result_conn, call>>
    /\ UNCHANGED split_vars
    /\ UNCHANGED tree_vars
    /\ UNCHANGED pure_vars
    /\ UNCHANGED cache_vars

\* remove_passthrough_nodes(objs, connections)
CallRemovePassthroughNodes ==
    /\ pc = "build"
    /\ LET s == remove_passthrough_nodes(objs, connections) IN
       /\ objs' = s.heap["objs"]
       /\ connections' = s.heap["connections"]
       /\ pc' = IF s.status = "ok" THEN "returned" ELSE "raised"
       /\ error' = IF s.status = "ok" THEN None ELSE s.status
       /\ result_objs' = IF s.status = "ok" THEN s.heap[ResultObjsList] ELSE <<>>
       /\ result_conn' = IF s.status = "ok" THEN s.heap[ResultConnList] ELSE <<>>
       /\ call' = [objs_before |-> objs, connections_before |-> connections,
                   visits |-> s.visits, pairs |-> s.pairs]
    /\ UNCHANGED split_vars
    /\ UNCHANGED tree_vars
    /\ UNCHANGED pure_vars
    /\ UNCHANGED cache_vars

Next == AddConnection \/ CallRemovePassthroughNodes

Spec == Init /\ [][Next]_vars

\* one passthrough node with one inbound and one outbound connection
InitPair ==
    /\ objs = <<E1, P, N1>>
    /\ \E p_in \in PairProfiles, p_out \in PairProfiles :
          connections = <<MakeConnection(1, <<E1, P>>, p_in),
                          MakeConnection(2, <<P, N1>>, p_out)>>
    /\ pc = "build"
    /\ error = None
    /\ result_objs = <<>>
    /\ result_conn = <<>>
    /\ call = NoCall
    /\ array = NoNetwork
    /\ parent = NoNetwork
    /\ split = NoSplit
    /\ hierarchy = NoHierarchy
    /\ fcall = NoFcall
    /\ cache = NoCache

NextPair == CallRemovePassthroughNodes

SpecPair == InitPair /\ [][NextPair]_vars

\* a chain of passthrough nodes between E1 and N1 has at most this many
MaxChain == 3

PassNodes == <<P, Q, PassthroughNode("P3", 2), PassthroughNode("P4", 2)>>

\* the k-th object along a chain of n passthrough nodes, E1 being the 0-th
ChainNode(k, n) == IF k = 0 THEN E1 ELSE IF k = n + 1 THEN N1 ELSE PassNodes[k]

\* what the first connection of a chain may carry, and what the others may
FirstTransforms == {MatA, Scalar(2)}
ChainTransforms == {MatA, MatN}

\* the orders in which n passthrough nodes may be listed
Orders(n) == {o \in [1..n -> 1..n] : \A i, j \in 1..n : o[i] = o[j] => i = j}

\* E1 -> P -> ... -> N1: the nodes listed in some order, every connection
\* with a transform of its own, and no synapse or one: on the first, the
\* second or the last connection
InitChain ==
    /\ \E n \in 1..MaxChain :
       \E order \in Orders(n), first \in FirstTransforms,
          ts \in [2..(n + 1) -> ChainTransforms], filtered \in {0, 1, 2, n + 1} :
          /\ objs = <<E1>> \o [i \in 1..n |-> PassNodes[order[i]]] \o <<N1>>
          /\ connections =
                [k \in 1..(n + 1) |->
                    Connection(k, ChainNode(k - 1, n), AllSlice,
                               ChainNode(k, n), AllSlice,
                               IF k = filtered THEN "s1" ELSE None,
                               IF k = 1 THEN first ELSE ts[k], None)]
    /\ pc = "build"
    /\ error = None
    /\ result_objs = <<>>
    /\ result_conn = <<>>
    /\ call = NoCall
    /\ array = NoNetwork
    /\ parent = NoNetwork
    /\ split = NoSplit
    /\ hierarchy = NoHierarchy
    /\ fcall = NoFcall
    /\ cache = NoCache

NextChain == CallRemovePassthroughNodes

SpecChain == InitChain /\ [][NextChain]_vars

\* the same network listed in two orders: E1 -> P -> Q -> N1, each
\* connection carrying one of the profiles, and one more connection or none
ExtraConnections == {<<>>, <<E1, N1>>, <<P, N1>>, <<E1, Q>>}

OrderProfiles ==
    {ProfA, ProfN, ProfF,
     Profile(MatA, AllSlice, AllSlice, "s1", None),
     Profile(MatN, AllSlice, AllSlice, "s1", None)}

InitOrder ==
    /\ objs \in ObjOrders
    /\ \E p1 \in OrderProfiles, p2 \in OrderProfiles, p3 \in OrderProfiles,
          extra \in ExtraConnections :
          connections =
              <<MakeConnection(1, <<E1, P>>, p1), MakeConnection(2, <<P, Q>>, p2),
                MakeConnection(3, <<Q, N1>>, p3)>>
              \o (IF extra = <<>> THEN <<>> ELSE <<MakeConnection(4, extra, ProfA)>>)
    /\ pc = "build"
    /\ error = None
    /\ result_objs = <<>>
    /\ result_conn = <<>>
    /\ call = NoCall
    /\ array = NoNetwork
    /\ parent = NoNetwork
    /\ split = NoSplit
    /\ hierarchy = NoHierarchy
    /\ fcall = NoFcall
    /\ cache = NoCache

\* objs listed from the last to the first
Reversed(seq) == [k \in 1..Len(seq) |-> seq[Len(seq) + 1 - k]]

\* remove_passthrough_nodes(objs, connections), and the same call with the
\* objects listed the other way round
CallInBothOrders ==
    /\ pc = "build"
    /\ \E s \in {remove_passthrough_nodes(objs, connections)},
          t \in {remove_passthrough_nodes(Reversed(objs), connections)} :
       /\ objs' = s.heap["objs"]
       /\ connections' = s.heap["connections"]
       /\ pc' = IF s.status = "ok" THEN "returned" ELSE "raised"
       /\ error' = IF s.status = "ok" THEN None ELSE s.status
       /\ result_objs' = IF s.status = "ok" THEN s.heap[ResultObjsList] ELSE <<>>
       /\ result_conn' = IF s.status = "ok" THEN s.heap[ResultConnList] ELSE <<>>
       /\ call' = [objs_before |-> objs, connections_before |-> connections,
                   visits |-> s.visits, pairs |-> s.pairs]
       /\ fcall' = [fn |-> "remove_passthrough_nodes",
                    objs |-> Reversed(objs),
                    error |-> IF t.status = "ok" THEN None ELSE t.status,
                    result_objs |-> IF t.status = "ok"
                                    THEN t.heap[ResultObjsList] ELSE <<>>,
                    result_conn |-> IF t.status = "ok"
                                    THEN t.heap[ResultConnList] ELSE <<>>]
    /\ UNCHANGED split_vars
    /\ UNCHANGED tree_vars
    /\ UNCHANGED cache_vars

NextOrder == CallInBothOrders

SpecOrder == InitOrder /\ [][NextOrder]_vars

----------------------------------------------------------------------------
(* The networks split_ensemblearray is called on                           *)

\* an array has at most this many ensembles
MaxEns == 3
\* at most this many build steps are taken before the call
MaxBuild == 2

EnsNames == <<"e0", "e1", "e2", "e3", "e4">>

\* rows x cols, all entries different
Ramp(rows, cols) ==
    Matrix([r \in 1..rows |-> [k \in 1..cols |-> (r - 1) * cols + k]])

\* EnsembleArray(n_neurons, n_ensembles=n, ens_dimensions=D), and with_square:
\* add_output('square', np.square) was called
EnsembleArray(n, D, with_square) ==
    [type |-> "EnsembleArray", label |-> "ea",
     n_ensembles |-> n, dimensions_per_ensemble |-> D,
     ea_ensembles |-> [k \in 1..n |-> Ensemble(EnsNames[k], D)],
     input |-> PassthroughNode("input", n * D),
     outputs |-> [name \in {"output", "square"} |->
                    IF name = "output" THEN PassthroughNode("output", n * D)
                    ELSE IF with_square
                        THEN PassthroughNode("square", n * FunctionSize("square"))
                    ELSE NoObj],
     output_sizes |->
        <<[name |-> "output", sizes |-> [k \in 1..n |-> D]]>>
        \o (IF with_square
            THEN <<[name |-> "square",
                    sizes |-> [k \in 1..n |-> FunctionSize("square")]]>>
            ELSE <<>>),
     nodes |->
        <<PassthroughNode("input", n * D), PassthroughNode("output", n * D)>>
        \o (IF with_square
            THEN <<PassthroughNode("square", n * FunctionSize("square"))>>
            ELSE <<>>),
     connections |->
        [k \in 1..n |->
            Connection(k, PassthroughNode("input", n * D), Range((k - 1) * D, k * D),
                       Ensemble(EnsNames[k], D), AllSlice, None, Scalar(1), None)]
        \o [k \in 1..n |->
            Connection(n + k, Ensemble(EnsNames[k], D), AllSlice,
                       PassthroughNode("output", n * D), Range((k - 1) * D, k * D),
                       None, Scalar(1), None)]
        \o (IF with_square
            THEN [k \in 1..n |->
                    Connection(2 * n + k, Ensemble(EnsNames[k], D), AllSlice,
                        PassthroughNode("square", n * FunctionSize("square")),
                        Range((k - 1) * FunctionSize("square"),
                              k * FunctionSize("square")),
                        None, Scalar(1), "square")]
            ELSE <<>>)]

\* the ids of the connections made while building the parent, and by the call
ParentId(k) == 20 + k
FirstNewId == 40

\* what the parent may connect to the array: into its input node ...
InputChoices(a) ==
    {Connection(0, E1, AllSlice, a.input, AllSlice, "s1",
                Ramp(a.input.size_in, 2), None),
     Connection(0, E1, Idx(<<2>>), a.input, Idx(<<a.input.size_in>>), None,
                Scalar(3), None),
     Connection(0, E1, AllSlice, a.input, AllSlice, None,
                Ramp(a.input.size_in, 2), "f"),
     Connection(0, E1, AllSlice, a.input, Idx(<<1>>), None,
                Matrix(<<<<1, 2>>>>), None),
     Connection(0, a.outputs["output"], AllSlice, a.input, AllSlice, "s1",
                Scalar(1), None)}

\* ... and from its output nodes
OutputChoices(a) ==
    {Connection(0, a.outputs["output"], AllSlice, N1, AllSlice, "s1",
                Ramp(2, a.outputs["output"].size_out), None),
     Connection(0, a.outputs["output"], Idx(<<a.outputs["output"].size_out>>),
                N1, Idx(<<2>>), None, Scalar(3), None),
     Connection(0, a.outputs["output"], Idx(<<2, 1>>), N1, Idx(<<2, 1>>), None,
                MatA, None),
     Connection(0, a.outputs["output"], Idx(<<2, 1>>), N1, AllSlice, None,
                MatA, None),
     Connection(0, a.outputs["output"], AllSlice, N1, AllSlice, None,
                MatA, "f")}
    \cup (IF a.outputs["square"] = NoObj THEN {}
          ELSE {Connection(0, a.outputs["square"], AllSlice, N1, AllSlice, None,
                           Ramp(2, a.outputs["square"].size_out), None)})

\* ways in which an array stops being well formed
Defects(a, par) ==
    {[array |-> [a EXCEPT !.n_ensembles = @ + 1], parent |-> par],
     [array |-> [a EXCEPT !.connections =
                    SelectSeq(@, LAMBDA c : c.id # Len(a.ea_ensembles))],
      parent |-> par],
     [array |-> [a EXCEPT !.connections[1].post_obj = a.ea_ensembles[2]],
      parent |-> par],
     [array |-> a,
      parent |-> [par EXCEPT !.connections = Append(@,
                     Connection(ParentId(Len(@)), a.input, AllSlice, N1, AllSlice,
                                None, Ramp(2, a.input.size_out), None))]],
     [array |-> [a EXCEPT !.connections =
                    SelectSeq(@, LAMBDA c : c.id # 2 * Len(a.ea_ensembles))],
      parent |-> par],
     [array |-> [a EXCEPT !.connections[Len(a.ea_ensembles) + 1].pre_obj =
                              a.ea_ensembles[2]],
      parent |-> par],
     [array |-> [a EXCEPT !.connections =
                    SelectSeq(@, LAMBDA c : c.id # 3 * Len(a.ea_ensembles))],
      parent |-> par],
     [array |-> a,
      parent |-> [par EXCEPT !.connections = Append(@,
                     Connection(ParentId(Len(@)), E1, AllSlice,
                                a.outputs["output"], AllSlice, None,
                                Ramp(a.outputs["output"].size_in, 2), None))]]}

InitSplit ==
    /\ \E n \in n_splits..MaxEns, D \in {1, 2}, with_square \in BOOLEAN :
          array = EnsembleArray(n, D, with_square)
    /\ parent = [type |-> "Network", networks |-> <<"ea">>,
                 connections |-> <<>>, probes |-> <<>>]
    /\ split = NoSplit
    /\ hierarchy = NoHierarchy
    /\ fcall = NoFcall
    /\ cache = NoCache
    /\ pc = "build"
    /\ error = None
    /\ objs = <<>>
    /\ connections = <<>>
    /\ result_objs = <<>>
    /\ result_conn = <<>>
    /\ call = NoCall

\* with parent: nengo.Connection(...) to or from a node of the array
AddParentConnection ==
    /\ pc = "build"
    /\ split.built < MaxBuild
    /\ \E ch \in InputChoices(array) \cup OutputChoices(array) :
          parent' = [parent EXCEPT !.connections =
                        Append(@, [ch EXCEPT !.id = ParentId(Len(parent.connections))])]
    /\ split' = [split EXCEPT !.built = @ + 1]
    /\ UNCHANGED <<array, pc, error>>
    /\ UNCHANGED rpn_vars
    /\ UNCHANGED tree_vars
    /\ UNCHANGED pure_vars
    /\ UNCHANGED cache_vars

\* with parent: nengo.Probe(target, synapse=...)
AddProbe ==
    /\ pc = "build"
    /\ split.built < MaxBuild
    /\ \E target \in {array.input, array.outputs["output"], E1}
                        \cup ({array.outputs["square"]} \ {NoObj}),
          synapse \in {None, "s1"} :
          parent' = [parent EXCEPT !.probes =
                        Append(@, Probe(target, Label("p", Len(parent.probes)),
                                        synapse))]
    /\ split' = [split EXCEPT !.built = @ + 1]
    /\ UNCHANGED <<array, pc, error>>
    /\ UNCHANGED rpn_vars
    /\ UNCHANGED tree_vars
    /\ UNCHANGED pure_vars
    /\ UNCHANGED cache_vars

\* the array or its surroundings are changed so that it is no longer well
\* formed
Damage ==
    /\ pc = "build"
    /\ split.built < MaxBuild
    /\ \E d \in Defects(array, parent) :
          /\ array' = d.array
          /\ parent' = d.parent
    /\ split' = [split EXCEPT !.built = @ + 1]
    /\ UNCHANGED <<pc, error>>
    /\ UNCHANGED rpn_vars
    /\ UNCHANGED tree_vars
    /\ UNCHANGED pure_vars
    /\ UNCHANGED cache_vars

\* split_ensemblearray(array, parent)
CallSplitEnsembleArray ==
    /\ pc = "build"
    /\ \E s \in {split_ensemblearray(array, parent, FirstNewId)} :
          /\ array' = s.array
          /\ parent' = s.parent
          /\ pc' = IF s.status = "ok" THEN "returned" ELSE "raised"
          /\ error' = IF s.status = "ok" THEN None ELSE s.status
          /\ split' = [split EXCEPT !.array_before = array,
                                    !.parent_before = parent,
                                    !.log = s.log]
    /\ UNCHANGED rpn_vars
    /\ UNCHANGED tree_vars
    /\ UNCHANGED pure_vars
    /\ UNCHANGED cache_vars

NextSplit ==
    \/ AddParentConnection
    \/ AddProbe
    \/ Damage
    \/ CallSplitEnsembleArray

SpecSplit == InitSplit /\ [][NextSplit]_vars

----------------------------------------------------------------------------
(* The hierarchies split_ensemblearrays is called on                       *)

Prefixed(o, prefix) == IF o = NoObj THEN o ELSE [o EXCEPT !.name = prefix \o @]

\* the same array with other objects: every object gets a name of its own
RenameArray(a, prefix) ==
    [a EXCEPT
        !.label = prefix,
        !.ea_ensembles = [k \in 1..Len(@) |-> Prefixed(@[k], prefix)],
        !.input = Prefixed(@, prefix),
        !.outputs = [name \in DOMAIN @ |-> Prefixed(@[name], prefix)],
        !.nodes = [k \in 1..Len(@) |-> Prefixed(@[k], prefix)],
        !.connections = [k \in 1..Len(@) |->
            [@[k] EXCEPT !.pre_obj = Prefixed(@, prefix),
                         !.post_obj = Prefixed(@, prefix)]]]

Network(label, networks) ==
    [type |-> "Network", label |-> label, networks |-> networks,
     connections |-> <<>>, probes |-> <<>>]

\* root holds the network mid, and mid holds the arrays
Hierarchy(arrays) ==
    [n \in {"root", "mid", "ea", "b."} |->
        IF n = "root" THEN Network("root", <<"mid">>)
        ELSE IF n = "mid" THEN Network("mid", arrays)
        ELSE IF n = "ea" THEN EnsembleArray(n_splits, 1, FALSE)
        ELSE RenameArray(EnsembleArray(MaxEns, 2, FALSE), "b.")]

\* the arrays of the hierarchy
Arrays(nets) ==
    {n \in DOMAIN nets :
        nets[n].type = "EnsembleArray" /\ Contains(nets["mid"].networks, n)}
Owners(nets) == {n \in DOMAIN nets : nets[n].type = "Network"}

\* what a network may connect to the nodes of array a
TreeChoices(nets, a) ==
    {Connection(0, E1, AllSlice, nets[a].input, AllSlice, "s1",
                Ramp(nets[a].input.size_in, 2), None),
     Connection(0, nets[a].outputs["output"], AllSlice, N1, AllSlice, None,
                Ramp(2, nets[a].outputs["output"].size_out), None),
     Connection(0, nets["ea"].outputs["output"], AllSlice, nets["b."].input,
                AllSlice, None,
                Ramp(nets["b."].input.size_in, nets["ea"].outputs["output"].size_out),
                None)}

InitTree ==
    /\ \E arrays \in {<<"ea">>, <<"ea", "b.">>, <<"b.", "ea">>} :
          hierarchy = [nets |-> Hierarchy(arrays), before |-> <<>>, visited |-> <<>>]
    /\ fcall = NoFcall
    /\ cache = NoCache
    /\ array = NoNetwork
    /\ parent = NoNetwork
    /\ split = NoSplit
    /\ pc = "build"
    /\ error = None
    /\ objs = <<>>
    /\ connections = <<>>
    /\ result_objs = <<>>
    /\ result_conn = <<>>
    /\ call = NoCall

\* with owner: nengo.Connection(...) to or from a node of an array
AddTreeConnection ==
    /\ pc = "build"
    /\ split.built < MaxBuild
    /\ \E owner \in Owners(hierarchy.nets), a \in Arrays(hierarchy.nets) :
         \E ch \in TreeChoices(hierarchy.nets, a) :
            hierarchy' = [hierarchy EXCEPT !.nets[owner].connections =
                             Append(@, [ch EXCEPT !.id = ParentId(split.built)])]
    /\ split' = [split EXCEPT !.built = @ + 1]
    /\ UNCHANGED <<array, parent, pc, error>>
    /\ UNCHANGED rpn_vars
    /\ UNCHANGED pure_vars
    /\ UNCHANGED cache_vars

\* with owner: nengo.Probe(node of an array)
AddTreeProbe ==
    /\ pc = "build"
    /\ split.built < MaxBuild
    /\ \E owner \in Owners(hierarchy.nets), a \in Arrays(hierarchy.nets) :
         \E target \in {hierarchy.nets[a].input, hierarchy.nets[a].outputs["output"]} :
            hierarchy' = [hierarchy EXCEPT !.nets[owner].probes =
                             Append(@, Probe(target, Label("p", split.built), "s1"))]
    /\ split' = [split EXCEPT !.built = @ + 1]
    /\ UNCHANGED <<array, parent, pc, error>>
    /\ UNCHANGED rpn_vars
    /\ UNCHANGED pure_vars
    /\ UNCHANGED cache_vars

\* an array of the hierarchy is changed so that it is no longer well formed
DamageArray ==
    /\ pc = "build"
    /\ split.built < MaxBuild
    /\ \E a \in Arrays(hierarchy.nets) :
         \E d \in Defects(hierarchy.nets[a], hierarchy.nets["mid"]) :
            hierarchy' = [hierarchy EXCEPT !.nets[a] = d.array,
                                           !.nets["mid"] = d.parent]
    /\ split' = [split EXCEPT !.built = @ + 1]
    /\ UNCHANGED <<array, parent, pc, error>>
    /\ UNCHANGED rpn_vars
    /\ UNCHANGED pure_vars
    /\ UNCHANGED cache_vars

\* split_ensemblearrays(root)
CallSplitEnsembleArrays ==
    /\ pc = "build"
    /\ \E h \in {split_ensemblearrays(
                    [nets |-> hierarchy.nets, next_id |-> FirstNewId,
                     status |-> "ok", visited |-> <<>>], "root")} :
          /\ hierarchy' = [nets |-> h.nets, before |-> hierarchy.nets,
                           visited |-> h.visited]
          /\ pc' = IF h.status = "ok" THEN "returned" ELSE "raised"
          /\ error' = IF h.status = "ok" THEN None ELSE h.status
    /\ UNCHANGED <<array, parent, split>>
    /\ UNCHANGED rpn_vars
    /\ UNCHANGED pure_vars
    /\ UNCHANGED cache_vars

NextTree ==
    \/ AddTreeConnection
    \/ AddTreeProbe
    \/ DamageArray
    \/ CallSplitEnsembleArrays

SpecTree == InitTree /\ [][NextTree]_vars

----------------------------------------------------------------------------
(* The connections full_transform is called on                             *)

\* the objects at the two ends are this wide
MaxWidth == 3

FtPre == Ensemble("E1", MaxWidth)
FtPost == FunctionNode("N1", MaxWidth, MaxWidth)

\* slice(None), and the index sequences of one or two indices, with repeats
FtSlices ==
    {AllSlice}
    \cup {Idx(<<i>>) : i \in 1..MaxWidth}
    \cup {Idx(<<i, j>>) : i \in 1..MaxWidth, j \in 1..MaxWidth}

FtTransforms ==
    {Scalar(5), Vector(<<5, 7>>), Matrix(<<<<1, 2>>, <<3, 4>>>>),
     Matrix(<<<<1, 2>>>>), Matrix(<<<<1>>, <<3>>>>),
     Matrix([r \in 1..MaxWidth |-> [k \in 1..MaxWidth |-> r * MaxWidth + k]]),
     Matrix([r \in 1..MaxWidth |-> [k \in 1..2 |-> r * 2 + k]]),
     [ndim |-> 3, v |-> <<<<5>>>>], [ndim |-> 3, v |-> <<<<5, 7>>>>]}

InitFT ==
    /\ \E t \in FtTransforms, pre_slice \in FtSlices, post_slice \in FtSlices,
          function \in {None, "f"},
          slice_pre \in BOOLEAN, slice_post \in BOOLEAN, allow_scalars \in BOOLEAN :
          fcall = [fn |-> "full_transform",
                   conn |-> Connection(1, FtPre, pre_slice, FtPost, post_slice,
                                       None, t, function),
                   slice_pre |-> slice_pre, slice_post |-> slice_post,
                   allow_scalars |-> allow_scalars]
    /\ pc = "build"
    /\ error = None
    /\ objs = <<>>
    /\ connections = <<>>
    /\ result_objs = <<>>
    /\ result_conn = <<>>
    /\ call = NoCall
    /\ array = NoNetwork
    /\ parent = NoNetwork
    /\ split = NoSplit
    /\ hierarchy = NoHierarchy
    /\ cache = NoCache

\* full_transform(conn, slice_pre, slice_post, allow_scalars)
CallFullTransform ==
    /\ pc = "build"
    /\ fcall.fn = "full_transform"
    /\ \E r \in {full_transform(fcall.conn, fcall.slice_pre, fcall.slice_post,
                               fcall.allow_scalars)} :
          /\ fcall' = [fn |-> "full_transform", conn |-> fcall.conn,
                       slice_pre |-> fcall.slice_pre, slice_post |-> fcall.slice_post,
                       allow_scalars |-> fcall.allow_scalars,
                       conn_before |-> fcall.conn, result |-> r.a]
          /\ pc' = IF r.err = "none" THEN "returned" ELSE "raised"
          /\ error' = IF r.err = "none" THEN None ELSE r.err
    /\ UNCHANGED rpn_vars
    /\ UNCHANGED split_vars
    /\ UNCHANGED tree_vars
    /\ UNCHANGED cache_vars

NextFT == CallFullTransform

SpecFT == InitFT /\ [][NextFT]_vars

----------------------------------------------------------------------------
(* The connection lists find_all_io is called on                           *)

MaxIoConns == 3

\* the ends of a connection: any two of three objects, or one object twice
IoEnds == {E1, N1, P} \X {E1, N1, P}

\* the lists of up to MaxIoConns connections, the k-th with id k
IoLists ==
    UNION {[1..n -> IoEnds] : n \in 0..MaxIoConns}

InitIO ==
    /\ \E ends \in IoLists :
          fcall = [fn |-> "find_all_io",
                   connections |->
                       [k \in 1..Len(ends) |->
                           Connection(k, ends[k][1], AllSlice, ends[k][2], AllSlice,
                                      None, MatI, None)]]
    /\ pc = "build"
    /\ error = None
    /\ objs = <<>>
    /\ connections = <<>>
    /\ result_objs = <<>>
    /\ result_conn = <<>>
    /\ call = NoCall
    /\ array = NoNetwork
    /\ parent = NoNetwork
    /\ split = NoSplit
    /\ hierarchy = NoHierarchy
    /\ cache = NoCache

\* inputs, outputs = find_all_io(connections)
CallFindAllIo ==
    /\ pc = "build"
    /\ fcall.fn = "find_all_io"
    /\ \E io \in {find_all_io(fcall.connections)} :
          fcall' = [fn |-> "find_all_io", connections |-> fcall.connections,
                    inputs |-> io.inputs, outputs |-> io.outputs]
    /\ pc' = "returned"
    /\ UNCHANGED error
    /\ UNCHANGED rpn_vars
    /\ UNCHANGED split_vars
    /\ UNCHANGED tree_vars
    /\ UNCHANGED cache_vars

NextIO == CallFindAllIo

SpecIO == InitIO /\ [][NextIO]_vars

----------------------------------------------------------------------------
(* The hierarchies objs_and_connections is called on                       *)

\* a network owns up to MaxOwn ensembles
MaxOwn == 2

Leaf(label) == [label |-> label, subs |-> <<>>]
Inner(label, subs) == [label |-> label, subs |-> subs]

\* a network alone, with one or two sub-networks, and with a sub-network
\* that holds one itself
NetShapes ==
    {Leaf("r"),
     Inner("r", <<Leaf("a")>>),
     Inner("r", <<Leaf("a"), Leaf("b")>>),
     Inner("r", <<Inner("a", <<Leaf("a1")>>)>>),
     Inner("r", <<Inner("a", <<Leaf("a1")>>), Leaf("b")>>)}

NetLabels == {"r", "a", "a1", "b"}

\* what a network owns: so many ensembles, nodes and connections
Contents ==
    [ensembles : 0..MaxOwn, nodes : 0..1, connections : 0..1]

NetId(label) == CHOOSE k \in 1..4 : <<"r", "a", "a1", "b">>[k] = label

\* the connection a network owns runs from its first to its last object
OwnConnections(label, own, n) ==
    IF n = 0 \/ Len(own) = 0 THEN <<>>
    ELSE <<Connection(NetId(label), own[1], AllSlice, own[Len(own)], AllSlice,
                      None, Scalar(1), None)>>

RECURSIVE BuildNetwork(_, _)
BuildNetwork(shape, content) ==
    [type |-> "Network",
     label |-> shape.label,
     ensembles |-> [k \in 1..content[shape.label].ensembles |->
                       Ensemble(shape.label \o ".e" \o ToString(k), 1)],
     nodes |-> [k \in 1..content[shape.label].nodes |->
                   PassthroughNode(shape.label \o ".n" \o ToString(k), 1)],
     connections |->
         OwnConnections(shape.label,
             [k \in 1..content[shape.label].ensembles |->
                 Ensemble(shape.label \o ".e" \o ToString(k), 1)]
             \o [k \in 1..content[shape.label].nodes |->
                 PassthroughNode(shape.label \o ".n" \o ToString(k), 1)],
             content[shape.label].connections),
     networks |-> [i \in 1..Len(shape.subs) |-> BuildNetwork(shape.subs[i], content)]]

InitFlat ==
    /\ \E shape \in NetShapes, content \in [NetLabels -> Contents] :
          fcall = [fn |-> "objs_and_connections",
                   network |-> BuildNetwork(shape, content)]
    /\ pc = "build"
    /\ error = None
    /\ objs = <<>>
    /\ connections = <<>>
    /\ result_objs = <<>>
    /\ result_conn = <<>>
    /\ call = NoCall
    /\ array = NoNetwork
    /\ parent = NoNetwork
    /\ split = NoSplit
    /\ hierarchy = NoHierarchy
    /\ cache = NoCache

\* objs, connections = objs_and_connections(network)
CallObjsAndConnections ==
    /\ pc = "build"
    /\ fcall.fn = "objs_and_connections"
    /\ \E r \in {objs_and_connections(fcall.network)} :
          fcall' = [fn |-> "objs_and_connections", network |-> fcall.network,
                    objs |-> r.objs, connections |-> r.connections]
    /\ pc' = "returned"
    /\ UNCHANGED error
    /\ UNCHANGED rpn_vars
    /\ UNCHANGED split_vars
    /\ UNCHANGED tree_vars
    /\ UNCHANGED cache_vars

NextFlat == CallObjsAndConnections

SpecFlat == InitFlat /\ [][NextFlat]_vars

----------------------------------------------------------------------------
(* DecoderCache                                                            *)

_DECODER_EXT == ".npy"
_SOLVER_INFO_EXT == ".pkl"

\* the cache keys in use, and the files the cache directory may hold
Keys == {"k1", "k2"}
Exts == {_DECODER_EXT, _SOLVER_INFO_EXT}
CacheFiles == Keys \X Exts

_get_decoder_path(key) == <<key, _DECODER_EXT>>
_get_solver_info_path(key) == <<key, _SOLVER_INFO_EXT>>

\* st_size of what np.save and pickle.dump write for a key
WrittenSize(path) ==
    IF path[2] = _SOLVER_INFO_EXT THEN 1
    ELSE IF path[1] = "k1" THEN 2 ELSE 3

\* a file of the directory: st_atime, st_size, and which call of the solver
\* its content comes from (0: a call made before this cache object was made)
NoFile == [exists |-> FALSE, atime |-> 0, size |-> 0, gen |-> 0]
File(atime, size, gen) == [exists |-> TRUE, atime |-> atime, size |-> size, gen |-> gen]

\* get_files
get_files(files) == {path \in CacheFiles : files[path].exists}

RECURSIVE SumSizes(_, _)
SumSizes(files, paths) ==
    IF paths = {} THEN 0
    ELSE files[CHOOSE path \in paths : TRUE].size
         + SumSizes(files, paths \ {CHOOSE path \in paths : TRUE})

get_size_in_bytes(files) == SumSizes(files, get_files(files))

\* the order of path strings
PathRank(path) ==
    (IF path[1] = "k1" THEN 0 ELSE 2) + (IF path[2] = _DECODER_EXT THEN 0 ELSE 1)

\* tuples ordered by size first
fileinfo_less_by_size(files, p, q) ==
    \/ files[p].size < files[q].size
    \/ files[p].size = files[q].size /\ PathRank(p) < PathRank(q)

\* (st_atime, st_size, path) tuples as list.sort() orders them
fileinfo_less(files, p, q) ==
    \/ files[p].atime < files[q].atime
    \/ files[p].atime = files[q].atime /\ files[p].size < files[q].size
    \/ files[p].atime = files[q].atime /\ files[p].size = files[q].size
       /\ PathRank(p) < PathRank(q)

\* fileinfo after fileinfo.sort(): the paths, least recently accessed first
sorted_fileinfo(files) ==
    [k \in 1..Cardinality(get_files(files)) |->
        CHOOSE p \in get_files(files) :
            Cardinality({q \in get_files(files) : fileinfo_less(files, q, p)}) = k - 1]

\* the loop over fileinfo, from the i-th entry on
RECURSIVE evict(_, _, _, _)
evict(files, fileinfo, i, excess) ==
    IF i > Len(fileinfo) \/ excess <= 0 THEN files
    ELSE evict([files EXCEPT ![fileinfo[i]] = NoFile], fileinfo, i + 1,
               excess - files[fileinfo[i]].size)

\* os.listdir gives the files in an order of its own: here by name, from
\* the first or from the last
listdir(files, backwards) ==
    [k \in 1..Cardinality(get_files(files)) |->
        CHOOSE p \in get_files(files) :
            Cardinality({q \in get_files(files) :
                            IF backwards THEN PathRank(q) > PathRank(p)
                            ELSE PathRank(q) < PathRank(p)}) = k - 1]

\* a test that finds decoder files without solver info only
is_orphan_decoders_only(files, path) ==
    /\ path[2] = _DECODER_EXT
    /\ ~files[_get_solver_info_path(path[1])].exists

\* ext == _DECODER_EXT and not os.path.exists(solver_info), or
\* ext == _SOLVER_INFO_EXT and not os.path.exists(decoder)
is_orphan(files, path) ==
    \/ path[2] = _DECODER_EXT /\ ~files[_get_solver_info_path(path[1])].exists
    \/ path[2] = _SOLVER_INFO_EXT /\ ~files[_get_decoder_path(path[1])].exists

\* for filename in self.get_files(), from the i-th on
RECURSIVE remove_orphans_loop(_, _, _)
remove_orphans_loop(files, listing, i) ==
    IF i > Len(listing) THEN files
    ELSE remove_orphans_loop(
           IF is_orphan(files, listing[i])
           THEN [files EXCEPT ![listing[i]] = NoFile] ELSE files,
           listing, i + 1)

remove_orphans(files, backwards) ==
    remove_orphans_loop(files, listdir(files, backwards), 1)

\* the directory after shrink(limit), and after its eviction loop
shrink_loop(files, limit) ==
    evict(files, sorted_fileinfo(files), 1, get_size_in_bytes(files) - limit)
shrink(files, limit, backwards) ==
    remove_orphans(shrink_loop(files, limit), backwards)

invalidate(files) == [path \in CacheFiles |-> NoFile]

\* a test that is content with the decoder file
both_load_decoder_only(files, key) == files[_get_decoder_path(key)].exists

\* np.load(decoder_path) and pickle.load of solver_info_path both succeed
both_load(files, key) ==
    /\ files[_get_decoder_path(key)].exists
    /\ files[_get_solver_info_path(key)].exists

\* the files read by the try block, with st_atime set by the read where the
\* file system records reads (touch): the decoder file first, the solver
\* info file only when the decoder file was loaded
read_files(files, key, touch, now) ==
    [path \in CacheFiles |->
        IF /\ touch /\ path[1] = key /\ files[path].exists
           /\ files[_get_decoder_path(key)].exists
        THEN [files[path] EXCEPT !.atime = now]
        ELSE files[path]]

\* np.save(decoder_path, decoders); pickle.dump(solver_info, f)
write_files(files, key, gen, now) ==
    [path \in CacheFiles |->
        IF path[1] = key THEN File(now, WrittenSize(path), gen) ELSE files[path]]

\* cached_solver(activities, targets, rng, E) for the arguments hashed to
\* key: the directory afterwards, whether the solver ran, and the call of
\* the solver the returned decoders and solver info come from
cached_solver(files, read_only, key, touch, gen, now) ==
    IF both_load(files, key)
    THEN [files |-> read_files(files, key, touch, now), invoked |-> FALSE,
          decoders |-> files[_get_decoder_path(key)].gen,
          solver_info |-> files[_get_solver_info_path(key)].gen]
    ELSE [files |-> IF read_only THEN read_files(files, key, touch, now)
                    ELSE write_files(read_files(files, key, touch, now), key, gen, now),
          invoked |-> TRUE, decoders |-> gen, solver_info |-> gen]

----------------------------------------------------------------------------
(* The life of a DecoderCache                                              *)

\* operations made on one cache object
MaxOps == 3
\* shrink is called with limits 0..MaxLimit
MaxLimit == 7

\* the directory as found: each file absent, or left by an earlier process
\* and last accessed at time 0 or 1
FoundFiles ==
    {[path \in CacheFiles |->
         IF at[path] < 0 THEN NoFile ELSE File(at[path], WrittenSize(path), 0)] :
       at \in [CacheFiles -> -1..1]}

NoWrites == [key \in Keys |-> 0]
NoOp == [op |-> None]

\* DecoderCache(read_only, cache_dir)
InitCache ==
    /\ \E read_only \in BOOLEAN, files \in FoundFiles :
          cache = [cache_dir |-> "cache_dir", read_only |-> read_only,
                   files |-> files, ops |-> 0, written |-> NoWrites,
                   last |-> NoOp]
    /\ pc = "build"
    /\ error = None
    /\ objs = <<>>
    /\ connections = <<>>
    /\ result_objs = <<>>
    /\ result_conn = <<>>
    /\ call = NoCall
    /\ array = NoNetwork
    /\ parent = NoNetwork
    /\ split = NoSplit
    /\ hierarchy = NoHierarchy
    /\ fcall = NoFcall

\* the clock of the file system: after every time in FoundFiles
Now == cache.ops + 2

OtherVarsUnchanged ==
    /\ UNCHANGED <<pc, error>>
    /\ UNCHANGED rpn_vars
    /\ UNCHANGED split_vars
    /\ UNCHANGED tree_vars
    /\ UNCHANGED pure_vars

\* a call of the wrapped solver
CallCachedSolver ==
    /\ cache.cache_dir # None
    /\ cache.ops < MaxOps
    /\ \E key \in Keys, touch \in BOOLEAN :
       \E r \in {cached_solver(cache.files, cache.read_only, key, touch,
                               cache.ops + 1, Now)} :
          cache' = [cache EXCEPT
                      !.files = r.files,
                      !.ops = @ + 1,
                      !.written = IF r.invoked /\ ~cache.read_only
                                  THEN [@ EXCEPT ![key] = cache.ops + 1] ELSE @,
                      !.last = [op |-> "cached_solver", key |-> key,
                                invoked |-> r.invoked,
                                decoders |-> r.decoders,
                                solver_info |-> r.solver_info,
                                files_before |-> cache.files,
                                written_before |-> cache.written]]
    /\ OtherVarsUnchanged

\* cache.shrink(limit)
CallShrink ==
    /\ cache.cache_dir # None
    /\ cache.ops < MaxOps
    /\ \E limit \in 0..MaxLimit, backwards \in BOOLEAN :
          cache' = [cache EXCEPT
                      !.files = shrink(cache.files, limit, backwards),
                      !.ops = @ + 1,
                      !.written = NoWrites,
                      !.last = [op |-> "shrink", limit |-> limit,
                                files_before |-> cache.files,
                                files_loop |-> shrink_loop(cache.files, limit)]]
    /\ OtherVarsUnchanged

\* cache.invalidate()
CallInvalidate ==
    /\ cache.cache_dir # None
    /\ cache.ops < MaxOps
    /\ cache' = [cache EXCEPT
                   !.files = invalidate(cache.files),
                   !.ops = @ + 1,
                   !.written = NoWrites,
                   !.last = [op |-> "invalidate", files_before |-> cache.files]]
    /\ OtherVarsUnchanged

\* cache.remove_orphans()
CallRemoveOrphans ==
    /\ cache.cache_dir # None
    /\ cache.ops < MaxOps
    /\ \E backwards \in BOOLEAN :
          cache' = [cache EXCEPT
                      !.files = remove_orphans(cache.files, backwards),
                      !.ops = @ + 1,
                      !.last = [op |-> "remove_orphans",
                                files_before |-> cache.files]]
    /\ OtherVarsUnchanged

NextCache ==
    CallCachedSolver \/ CallShrink \/ CallInvalidate \/ CallRemoveOrphans

SpecCache == InitCache /\ [][NextCache]_vars

----------------------------------------------------------------------------
(* Properties of remove_passthrough_nodes                                  *)

SeqSet(seq) == {seq[i] : i \in 1..Len(seq)}

\* a passthrough node: a Node whose output is None
IsPassthroughNode(o) == o.type = "Node" /\ o.output = None

\* The weight a connection puts from component k of its source value (the
\* function's value when it has a function) onto component r of its target.
SourceWidth(c) ==
    IF c.function = None THEN c.pre_obj.size_out ELSE FunctionSize(c.function)

Weight(c, r, k) ==
    LET rows == IF c.post_slice.all THEN [i \in 1..c.post_obj.size_in |-> i]
                ELSE c.post_slice.idx
        cols == IF c.pre_slice.all THEN [i \in 1..SourceWidth(c) |-> i]
                ELSE c.pre_slice.idx
        T == c.transform.v
    IN IF c.transform.ndim = 2
       THEN IF \E i \in 1..Len(rows), j \in 1..Len(cols) : rows[i] = r /\ cols[j] = k
            THEN LET ij == CHOOSE ij \in (1..Len(rows)) \X (1..Len(cols)) :
                               rows[ij[1]] = r /\ cols[ij[2]] = k
                 IN T[ij[1]][ij[2]]
            ELSE 0
       ELSE IF \E i \in 1..Len(rows) : i <= Len(cols) /\ rows[i] = r /\ cols[i] = k
            THEN LET i == CHOOSE i \in 1..Len(rows) :
                              i <= Len(cols) /\ rows[i] = r /\ cols[i] = k
                 IN IF Len(T[1]) = 1 THEN T[1][1] ELSE T[1][i]
            ELSE 0

WeightMatrix(c) ==
    [r \in 1..c.post_obj.size_in |-> [k \in 1..SourceWidth(c) |-> Weight(c, r, k)]]

RECURSIVE SumProducts(_, _, _, _, _)
SumProducts(A, B, i, j, k) ==
    IF k = 0 THEN 0 ELSE A[i][k] * B[k][j] + SumProducts(A, B, i, j, k - 1)

\* the matrix product A.B
Product(A, B) ==
    [i \in 1..Len(A) |-> [j \in 1..Len(B[1]) |-> SumProducts(A, B, i, j, Len(B))]]

IsZeroMatrix(A) == \A i \in 1..Len(A) : \A j \in 1..Len(A[i]) : A[i][j] = 0

\* the product the pair (c_in, c_out) stands for: outbound on the left
PairProduct(p) == Product(WeightMatrix(p.c_out), WeightMatrix(p.c_in))

Created(p) == p.kind = "conn"
IsError(p) == p.kind \notin {"conn", "None"}

PairSet == SeqSet(call.pairs)
BothSynapses(p) == p.c_in.synapse # None /\ p.c_out.synapse # None

\* C1: when the call returns, the returned objects hold no passthrough node
\* and every non-passthrough object of objs, and no returned connection
\* starts or ends at a passthrough node of objs.
C1_NoPassthroughLeft ==
    pc = "returned" =>
      /\ \A o \in SeqSet(result_objs) : ~IsPassthroughNode(o)
      /\ \A o \in SeqSet(call.objs_before) :
            ~IsPassthroughNode(o) => o \in SeqSet(result_objs)
      /\ \A c \in SeqSet(result_conn) : \A o \in SeqSet(call.objs_before) :
            IsPassthroughNode(o) => c.pre_obj # o /\ c.post_obj # o

\* a return after two passthrough nodes with connections were removed
\* and a replacement connection was kept
C1_Witness ==
    /\ pc = "returned"
    /\ Len(call.visits) = 2
    /\ \A n \in 1..2 : call.visits[n].In # <<>> /\ call.visits[n].Out # <<>>
    /\ \E c \in SeqSet(result_conn) : c.id > Len(call.connections_before)

VisitPairs(v) == SelectSeq(call.pairs, LAMBDA p : p.node = v.node)

VisitIndex(node) == CHOOSE n \in 1..Len(call.visits) : call.visits[n].node = node

\* the connections of the working set when the n-th node is visited
Live(n) ==
    (SeqSet(call.connections_before)
        \cup {p.c : p \in {q \in PairSet : Created(q) /\ VisitIndex(q.node) < n}})
    \ UNION {SeqSet(call.visits[m].In) \cup SeqSet(call.visits[m].Out) :
                m \in 1..(n - 1)}

\* C2: when the call returns, every removed node P saw as In and Out the
\* connections then entering and leaving it; the pairs composed for P are
\* In x Out, each once; a pair whose product full_transform(c_out) .
\* full_transform(c_in) is not zero produced exactly one new connection, from
\* c_in.pre_obj to c_out.post_obj, carrying that product, and a pair whose
\* product is zero produced none; the returned connections are the ones left.
C2_PairsComposed ==
    pc = "returned" =>
      /\ \A n \in 1..Len(call.visits) :
           LET v == call.visits[n]
               ps == VisitPairs(v)
           IN /\ SeqSet(v.In) = {c \in Live(n) : c.post_obj.name = v.node}
              /\ SeqSet(v.Out) = {c \in Live(n) : c.pre_obj.name = v.node}
              /\ Len(ps) = Len(v.In) * Len(v.Out)
              /\ \A k \in 1..Len(ps) :
                   /\ ps[k].c_in = v.In[((k - 1) \div Len(v.Out)) + 1]
                   /\ ps[k].c_out = v.Out[((k - 1) % Len(v.Out)) + 1]
      /\ \A p \in PairSet :
           IF IsZeroMatrix(PairProduct(p)) THEN p.kind = "None"
           ELSE /\ Created(p)
                /\ p.c.pre_obj = p.c_in.pre_obj
                /\ p.c.post_obj = p.c_out.post_obj
                /\ WeightMatrix(p.c) = PairProduct(p)
                /\ \A q \in PairSet : Created(q) /\ q.c.id = p.c.id => q = p
                /\ p.c \notin SeqSet(call.connections_before)
      /\ SeqSet(result_conn) = Live(Len(call.visits) + 1)
      /\ Len(result_conn) = Cardinality(SeqSet(result_conn))

\* one inbound (transform A), one outbound (transform B), B.A # A.B, and
\* the one replacement carries B.A
C2_Witness ==
    /\ pc = "returned"
    /\ \E n \in 1..Len(call.visits) :
         LET v == call.visits[n] IN
         /\ Len(v.In) = 1 /\ Len(v.Out) = 1
         /\ \E p \in PairSet :
              /\ p.c_in = v.In[1] /\ p.c_out = v.Out[1] /\ Created(p)
              /\ PairProduct(p) # Product(WeightMatrix(p.c_in), WeightMatrix(p.c_out))
              /\ p.c \in SeqSet(result_conn)

HasSelfConnection ==
    \E c \in SeqSet(call.connections_before) :
        /\ c.pre_obj = c.post_obj
        /\ IsPassthroughNode(c.pre_obj)
        /\ c.pre_obj \in SeqSet(call.objs_before)

\* C3: a call on a network in which a passthrough node of objs feeds itself
\* always raises the feedback error, and nothing else.
C3_FeedbackAlways ==
    (pc # "build" /\ HasSelfConnection) => (pc = "raised" /\ error = FeedbackError)

C5_SynapseMerge ==
    \A p \in PairSet :
        IF BothSynapses(p) THEN p.kind = FilterError /\ error = FilterError
        ELSE /\ p.kind # FilterError
             /\ Created(p) =>
                  p.c.synapse = (IF p.c_in.synapse # None THEN p.c_in.synapse
                                 ELSE p.c_out.synapse)

C5_Witness ==
    \E p \in PairSet :
        /\ p.c_in.synapse = None /\ p.c_out.synapse = "s2"
        /\ Created(p) /\ p.c.synapse = "s2"
        /\ p.c \in SeqSet(result_conn)

\* C6 as claimed: a pair whose product is zero creates no connection and
\* raises no error, whatever the synapses and functions.
C6_Original ==
    \A p \in PairSet : IsZeroMatrix(PairProduct(p)) => p.kind = "None"

\* C6 amended: a pair whose product is zero, whose connections do not both
\* have a synapse and whose c_out carries no function creates no connection
\* and raises no error; with both synapses it raises the filter error and
\* otherwise with a function on c_out the function error, zero or not.
C6_ZeroDropped ==
    \A p \in PairSet : IsZeroMatrix(PairProduct(p)) =>
        IF BothSynapses(p) THEN p.kind = FilterError
        ELSE IF p.c_out.function # None THEN p.kind = FunctionError
        ELSE /\ p.kind = "None"
             /\ (Len(call.pairs) = 1 => (pc = "returned" /\ result_conn = <<>>))

\* inbound [[1,0],[0,1]], outbound [[0,0],[0,0]]: no edge is left
C6_Witness ==
    /\ pc = "returned"
    /\ result_conn = <<>>
    /\ \E p \in PairSet :
         /\ p.c_in.transform = MatI /\ p.c_out.transform = MatZ
         /\ p.kind = "None"

Untouched(c) ==
    \A o \in SeqSet(call.objs_before) :
        IsPassthroughNode(o) => c.pre_obj # o /\ c.post_obj # o

\* C7: after the call, returned or raised, the caller's lists hold what they
\* held before it, in the same order; a returned call returns every
\* connection that touches no passthrough node, as it was.
C7_CallerListsKept ==
    pc # "build" =>
      /\ objs = call.objs_before
      /\ connections = call.connections_before
      /\ pc = "returned" =>
           \A c \in SeqSet(call.connections_before) :
               Untouched(c) => c \in SeqSet(result_conn)

\* a call that raised after it had removed a node and added a replacement
C7_Witness ==
    /\ pc = "raised"
    /\ Len(call.visits) = 2
    /\ \E p \in PairSet : Created(p)
    /\ \E c \in SeqSet(connections) : Untouched(c)

----------------------------------------------------------------------------
(* Properties of split_ensemblearray                                       *)

ArrayBefore == split.array_before
ParentBefore == split.parent_before

EnsembleIndex(a) == 1..Len(a.ea_ensembles)
OutputNames(a) == {a.output_sizes[k].name : k \in 1..Len(a.output_sizes)}

\* the connections of the two networks
AllConnections(a, par) == SeqSet(par.connections) \cup SeqSet(a.connections)

\* exactly one connection leaves `node` for each ensemble, onto the ensemble
\* itself, and no other connection leaves it
FansOutToEnsembles(a, par, node) ==
    /\ \A c \in AllConnections(a, par) : c.pre_obj = node =>
          \E k \in EnsembleIndex(a) : post(c) = View(a.ea_ensembles[k], AllSlice)
    /\ \A k \in EnsembleIndex(a) :
          Cardinality({c \in AllConnections(a, par) :
              c.pre_obj = node /\ post(c) = View(a.ea_ensembles[k], AllSlice)}) = 1
    /\ Len(SelectSeq(par.connections \o a.connections,
                     LAMBDA c : c.pre_obj = node)) = Len(a.ea_ensembles)

\* exactly one connection enters `node` from each ensemble, from the ensemble
\* itself, and no other connection enters it
FansInFromEnsembles(a, par, node) ==
    /\ \A c \in AllConnections(a, par) : c.post_obj = node =>
          \E k \in EnsembleIndex(a) : pre(c) = View(a.ea_ensembles[k], AllSlice)
    /\ \A k \in EnsembleIndex(a) :
          Cardinality({c \in AllConnections(a, par) :
              c.post_obj = node /\ pre(c) = View(a.ea_ensembles[k], AllSlice)}) = 1
    /\ Len(SelectSeq(par.connections \o a.connections,
                     LAMBDA c : c.post_obj = node)) = Len(a.ea_ensembles)

\* the preconditions of split_ensemblearray
WellFormed(a, par) ==
    /\ a.n_ensembles = Len(a.ea_ensembles)
    /\ FansOutToEnsembles(a, par, a.input)
    /\ \A name \in OutputNames(a) : FansInFromEnsembles(a, par, a.outputs[name])

ArrayShapeErrors == {CountError, InputError, OutputError}

\* C8: a call on an array that violates a precondition raises the
\* array-shape error and leaves the array (nodes, connections, ensembles,
\* input and output bindings) and the parent (connections, probes) as they
\* were.
C8_ChecksBeforeMutation ==
    (pc # "build" /\ ArrayBefore.type = "EnsembleArray"
        /\ ~WellFormed(ArrayBefore, ParentBefore)) =>
      /\ pc = "raised"
      /\ error \in ArrayShapeErrors
      /\ array = ArrayBefore
      /\ parent = ParentBefore

\* only 2 of the 3 ensembles are connected to the output node, the parent
\* connects to the input node, and the call raised
C8_Witness ==
    /\ pc = "raised"
    /\ error = OutputError
    /\ Len(array.ea_ensembles) = 3
    /\ Cardinality({c \in SeqSet(array.connections) :
                       c.post_obj = array.outputs["output"]}) = 2
    /\ \E c \in SeqSet(parent.connections) : c.post_obj = array.input

\* the nodes that stand in for the node labelled `label` after the split
NewNodeNames(label) == {Label(label, i - 1) : i \in 1..n_splits}

\* the connection of array a that enters the ensemble at position k
InConn(a, k) ==
    CHOOSE c \in SeqSet(a.connections) : post(c) = View(a.ea_ensembles[k], AllSlice)

\* the connection of array a from the ensemble at position k to a node
\* whose name is in `names`
OutConn(a, k, names) ==
    CHOOSE c \in SeqSet(a.connections) :
        pre(c) = View(a.ea_ensembles[k], AllSlice) /\ c.post_obj.name \in names

\* what the call made in place of connection c
Replacements(side, c) ==
    (CHOOSE e \in SeqSet(split.log) : e.side = side /\ e.c = c).new

Replaced(side, c) == \E e \in SeqSet(split.log) : e.side = side /\ e.c = c

\* the connections of the parent that fed the old input node
FedInput == {c \in SeqSet(ParentBefore.connections) : c.post_obj = ArrayBefore.input}

\* the name of the output node of the array that c reads, or None
OutputRead(c) ==
    IF \E name \in OutputNames(ArrayBefore) : c.pre_obj = ArrayBefore.outputs[name]
    THEN CHOOSE name \in OutputNames(ArrayBefore) : c.pre_obj = ArrayBefore.outputs[name]
    ELSE None

\* c is gone from the parent and n_splits connections stand in its place, one
\* into each new input node, each with the source, synapse and function of
\* c; the zero blocks are there too
InputReplaced(c) ==
    /\ c \notin SeqSet(parent.connections)
    /\ Replaced("in", c)
    /\ Len(Replacements("in", c)) = n_splits
    /\ {Replacements("in", c)[i].post_obj.name : i \in 1..n_splits}
          = NewNodeNames(ArrayBefore.input.name)
    /\ \A i \in 1..n_splits :
          /\ Replacements("in", c)[i] \in SeqSet(parent.connections)
          /\ Replacements("in", c)[i].post_slice.all
          /\ Replacements("in", c)[i].post_obj \in SeqSet(array.nodes)
          /\ pre(Replacements("in", c)[i]) = pre(c)
          /\ Replacements("in", c)[i].synapse = c.synapse
          /\ Replacements("in", c)[i].function = c.function
          /\ Cardinality({r \in SeqSet(parent.connections) :
                             r.id = Replacements("in", c)[i].id}) = 1

\* the block c delivers to every ensemble through the old input node is the
\* block its replacement delivers through the ensemble's new input node
InputWeightsKept(c) ==
    \A k \in EnsembleIndex(array) :
        \E i \in 1..n_splits :
            /\ Replacements("in", c)[i].post_obj = InConn(array, k).pre_obj
            /\ Product(WeightMatrix(InConn(array, k)),
                       WeightMatrix(Replacements("in", c)[i]))
                 = Product(WeightMatrix(InConn(ArrayBefore, k)), WeightMatrix(c))

\* what stands in place of a connection c from an output node of the array
\* back to its input node: the replacements of its replacements
LoopReplacements(c) ==
    UNION {SeqSet(Replacements("out", Replacements("in", c)[i])) :
              i \in 1..Len(Replacements("in", c))}

\* c is gone and n_splits x n_splits connections stand in its place, one from
\* each new output node to each new input node, with the synapse of c, and
\* from every ensemble to every ensemble they carry the weights c carried
LoopReplaced(c) ==
    /\ c \notin SeqSet(parent.connections)
    /\ Replaced("in", c)
    /\ Len(Replacements("in", c)) = n_splits
    /\ \A i \in 1..n_splits :
          /\ Replacements("in", c)[i] \notin SeqSet(parent.connections)
          /\ Replaced("out", Replacements("in", c)[i])
    /\ Cardinality(LoopReplacements(c)) = n_splits * n_splits
    /\ \A f \in LoopReplacements(c) :
          /\ f \in SeqSet(parent.connections)
          /\ f.synapse = c.synapse
          /\ f.function = None
          /\ f.pre_obj.name \in NewNodeNames(OutputRead(c))
          /\ f.post_obj.name \in NewNodeNames(ArrayBefore.input.name)
    /\ \A k_src \in EnsembleIndex(array), k_dst \in EnsembleIndex(array) :
          \E f \in LoopReplacements(c) :
             /\ f.pre_obj = OutConn(array, k_src, NewNodeNames(OutputRead(c))).post_obj
             /\ f.post_obj = InConn(array, k_dst).pre_obj
             /\ Product(Product(WeightMatrix(InConn(array, k_dst)), WeightMatrix(f)),
                        WeightMatrix(OutConn(array, k_src, NewNodeNames(OutputRead(c)))))
                  = Product(Product(WeightMatrix(InConn(ArrayBefore, k_dst)),
                                    WeightMatrix(c)),
                            WeightMatrix(OutConn(ArrayBefore, k_src, {OutputRead(c)})))

\* C9 as claimed: after the call every connection that fed the old input node
\* is replaced by n_splits connections with its own source, and the weights
\* to every ensemble are kept.
C9_Original ==
    pc = "returned" =>
        \A c \in FedInput : InputReplaced(c) /\ InputWeightsKept(c)

\* C9 amended: after the call every connection c that fed the old input node
\* from outside the array is gone from the parent and replaced by n_splits
\* connections, one into each new input node (zero blocks too), each with the
\* source, synapse and function of c, and the weights to every ensemble are
\* kept; a connection from an output node of the array itself is replaced by
\* n_splits x n_splits connections from the new output nodes to the new input
\* nodes that keep the weights from every ensemble to every ensemble.
C9_InputsPreserved ==
    pc = "returned" =>
        \A c \in FedInput :
            IF OutputRead(c) = None
            THEN InputReplaced(c) /\ InputWeightsKept(c)
            ELSE LoopReplaced(c)

\* a connection into input[0] alone: its replacement into the second new
\* input node is all zero and is there
C9_Witness ==
    /\ pc = "returned"
    /\ Len(array.ea_ensembles) = 3
    /\ array.dimensions_per_ensemble = 2
    /\ \E c \in FedInput :
          /\ OutputRead(c) = None
          /\ ~c.post_slice.all
          /\ AllZero(Replacements("in", c)[2].transform)
          /\ ~AllZero(Replacements("in", c)[1].transform)
          /\ Replacements("in", c)[2] \in SeqSet(parent.connections)
    /\ \E c \in FedInput : c.function # None /\ InputReplaced(c)

\* the connections of the parent that read an old output node and go
\* elsewhere than the array's own input node
ReadOutput ==
    {c \in SeqSet(ParentBefore.connections) :
        OutputRead(c) # None /\ c.post_obj # ArrayBefore.input}

\* c is gone from the parent and n_splits connections stand in its place, one
\* from each new output node of that name, each with the synapse and target
\* of c
OutputReplaced(c) ==
    /\ c \notin SeqSet(parent.connections)
    /\ Replaced("out", c)
    /\ Len(Replacements("out", c)) = n_splits
    /\ {Replacements("out", c)[i].pre_obj.name : i \in 1..n_splits}
          = NewNodeNames(OutputRead(c))
    /\ \A i \in 1..n_splits :
          /\ Replacements("out", c)[i] \in SeqSet(parent.connections)
          /\ Replacements("out", c)[i].pre_obj \in SeqSet(array.nodes)
          /\ post(Replacements("out", c)[i]) = post(c)
          /\ Replacements("out", c)[i].synapse = c.synapse

\* the weights c carried from every ensemble to every component of its
\* target are the weights its replacement carries from the ensemble's new
\* output node
OutputWeightsKept(c) ==
    \A k \in EnsembleIndex(array) :
        \E i \in 1..n_splits :
            /\ Replacements("out", c)[i].pre_obj
                 = OutConn(array, k, NewNodeNames(OutputRead(c))).post_obj
            /\ Product(WeightMatrix(Replacements("out", c)[i]),
                       WeightMatrix(OutConn(array, k, NewNodeNames(OutputRead(c)))))
                 = Product(WeightMatrix(c),
                           WeightMatrix(OutConn(ArrayBefore, k, {OutputRead(c)})))

\* C10: after the call every connection that read an old output node is
\* replaced by n_splits connections, one from each new output node, with its
\* synapse and target, and the weights from every ensemble to every component
\* of the target are kept, whatever its pre_slice and post_slice.
C10_OutputsPreserved ==
    pc = "returned" =>
        \A c \in ReadOutput : OutputReplaced(c) /\ OutputWeightsKept(c)

\* the nodes of the array before the call that the call removes: the input
\* node and the output nodes
OldNodes ==
    {ArrayBefore.input} \cup {ArrayBefore.outputs[name] : name \in OutputNames(ArrayBefore)}

\* the probes the call makes for probe p
NewProbes(p) ==
    {q \in SeqSet(parent.probes) : q \notin SeqSet(ParentBefore.probes)
        /\ q.label \in {Label(p.label, i - 1) : i \in 1..n_splits}}

\* C11: after the call every probe of the parent on the old input node or on
\* an old output node is gone from the parent's probes and n_splits probes
\* stand in its place, probe i on the new node of partition i, with its
\* synapse and the label "<label><i>"; the other probes are as they were and
\* the parent has no further probe.
C11_ProbesReplaced ==
    pc = "returned" =>
      /\ \A p \in SeqSet(ParentBefore.probes) :
           IF p.target \in OldNodes
           THEN /\ p \notin SeqSet(parent.probes)
                /\ Cardinality(NewProbes(p)) = n_splits
                /\ \A i \in 1..n_splits :
                     /\ Probe([p.target EXCEPT
                                  !.name = Label(@, i - 1),
                                  !.size_in = (CHOOSE n \in SeqSet(array.nodes) :
                                                 n.name = Label(p.target.name, i - 1)).size_in,
                                  !.size_out = (CHOOSE n \in SeqSet(array.nodes) :
                                                 n.name = Label(p.target.name, i - 1)).size_out],
                              Label(p.label, i - 1), p.synapse) \in NewProbes(p)
                     /\ Len(SelectSeq(parent.probes,
                              LAMBDA q : q.label = Label(p.label, i - 1))) = 1
                     /\ \E n \in SeqSet(array.nodes) : n.name = Label(p.target.name, i - 1)
           ELSE Len(SelectSeq(parent.probes, LAMBDA q : q = p)) = 1
      /\ Len(parent.probes)
           = Len(SelectSeq(ParentBefore.probes, LAMBDA p : p.target \notin OldNodes))
             + n_splits * Len(SelectSeq(ParentBefore.probes,
                                        LAMBDA p : p.target \in OldNodes))
      /\ \A q \in SeqSet(parent.probes) : q.target \notin OldNodes

\* the input node and an output node were probed, with different synapses,
\* next to a probe elsewhere, and the call returned
C11_Witness ==
    /\ pc = "returned"
    /\ \E p \in SeqSet(ParentBefore.probes) :
          p.target = ArrayBefore.input /\ p.synapse = "s1"
          /\ Cardinality(NewProbes(p)) = n_splits
    /\ \E p \in SeqSet(ParentBefore.probes) :
          p.target = ArrayBefore.outputs["output"] /\ p.synapse = None
          /\ Cardinality(NewProbes(p)) = n_splits

\* the nodes the call added to the array, by the label of the node they
\* stand in for
NewNodes(label) ==
    {n \in SeqSet(array.nodes) :
        n \notin SeqSet(ArrayBefore.nodes) /\ n.name \in NewNodeNames(label)}

RECURSIVE SetSum(_, _)
SetSum(S, f) ==
    IF S = {} THEN 0
    ELSE LET x == CHOOSE x \in S : TRUE IN f[x] + SetSum(S \ {x}, f)

\* the total width of a set of nodes
TotalWidth(S) == SetSum(S, [n \in S |-> n.size_in])

\* the slices are index ranges that do not overlap and together hold every
\* index 1..width once
Tiles(slices, width) ==
    /\ \A sl \in slices : ~sl.all /\ \A i \in 1..Len(sl.idx) : sl.idx[i] \in 1..width
    /\ \A i \in 1..width :
          Cardinality({sl \in slices : \E j \in 1..Len(sl.idx) : sl.idx[j] = i}) = 1

\* an index range of the given width: a+1, ..., a+width
IsRange(sl, width) ==
    /\ ~sl.all
    /\ Len(sl.idx) = width
    /\ \A j \in 1..Len(sl.idx) : sl.idx[j] = sl.idx[1] + j - 1

\* the connections of the array after the call that enter ensemble k
EnsembleInputs(k) ==
    SelectSeq(array.connections, LAMBDA c : c.post_obj = array.ea_ensembles[k])

\* the connections of the array after the call from ensemble k to a node
\* that stands in for the output node `name`
EnsembleOutputs(k, name) ==
    SelectSeq(array.connections,
              LAMBDA c : c.pre_obj = array.ea_ensembles[k]
                         /\ c.post_obj \in NewNodes(ArrayBefore.outputs[name].name))

\* C12: after a call that returned the array has n_splits new input nodes
\* whose widths sum to the width of the old one and per output name n_splits
\* new output nodes whose widths sum to the width of the old one, and no
\* other new node; the ensembles are as before; every ensemble has one
\* inbound connection, from a new input node, with synapse None and a slice
\* of its own width, and per output name one connection to a new output node
\* that carries the synapse, function and transform of its old one; the
\* slices on every new node tile the node; the array has no other connection.
C12_ArrayRewired ==
    pc = "returned" =>
      /\ array.ea_ensembles = ArrayBefore.ea_ensembles
      /\ array.n_ensembles = ArrayBefore.n_ensembles
      /\ Cardinality(NewNodes(ArrayBefore.input.name)) = n_splits
      /\ TotalWidth(NewNodes(ArrayBefore.input.name)) = ArrayBefore.input.size_in
      /\ \A name \in OutputNames(ArrayBefore) :
           /\ Cardinality(NewNodes(ArrayBefore.outputs[name].name)) = n_splits
           /\ TotalWidth(NewNodes(ArrayBefore.outputs[name].name))
                = ArrayBefore.outputs[name].size_in
      /\ Len(array.nodes) = n_splits * (1 + Cardinality(OutputNames(ArrayBefore)))
      /\ \A n \in SeqSet(array.nodes) : n \notin SeqSet(ArrayBefore.nodes)
      /\ \A k \in EnsembleIndex(array) :
           /\ Len(EnsembleInputs(k)) = 1
           /\ EnsembleInputs(k)[1].pre_obj \in NewNodes(ArrayBefore.input.name)
           /\ EnsembleInputs(k)[1].synapse = None
           /\ EnsembleInputs(k)[1].post_slice.all
           /\ IsRange(EnsembleInputs(k)[1].pre_slice, array.dimensions_per_ensemble)
           /\ \A name \in OutputNames(ArrayBefore) :
                /\ Len(EnsembleOutputs(k, name)) = 1
                /\ EnsembleOutputs(k, name)[1].pre_slice.all
                /\ EnsembleOutputs(k, name)[1].synapse
                     = OutConn(ArrayBefore, k, {name}).synapse
                /\ EnsembleOutputs(k, name)[1].function
                     = OutConn(ArrayBefore, k, {name}).function
                /\ EnsembleOutputs(k, name)[1].transform
                     = OutConn(ArrayBefore, k, {name}).transform
                /\ IsRange(EnsembleOutputs(k, name)[1].post_slice,
                           Len(OutConn(ArrayBefore, k, {name}).post_slice.idx))
      /\ \A n \in NewNodes(ArrayBefore.input.name) :
           Tiles({c.pre_slice : c \in {d \in SeqSet(array.connections) : d.pre_obj = n}},
                 n.size_out)
      /\ \A name \in OutputNames(ArrayBefore) :
           \A n \in NewNodes(ArrayBefore.outputs[name].name) :
             Tiles({c.post_slice : c \in {d \in SeqSet(array.connections) : d.post_obj = n}},
                   n.size_in)
      /\ Len(array.connections)
           = Len(array.ea_ensembles) * (1 + Cardinality(OutputNames(ArrayBefore)))
      /\ Cardinality(SeqSet(array.connections)) = Len(array.connections)

\* three ensembles of two dimensions with a second output of another width
C12_Witness ==
    /\ pc = "returned"
    /\ Len(array.ea_ensembles) = 3
    /\ array.dimensions_per_ensemble = 2
    /\ Cardinality(OutputNames(ArrayBefore)) = 2
    /\ \E n \in NewNodes("input") : n.size_in = 4
    /\ \E n \in NewNodes("input") : n.size_in = 2
    /\ Len(EnsembleOutputs(3, "square")) = 1

----------------------------------------------------------------------------
(* Properties of split_ensemblearrays                                      *)

NetsBefore == hierarchy.before

\* the networks of the hierarchy: the owners and the arrays they hold
Members == Owners(hierarchy.nets) \cup Arrays(hierarchy.nets)

\* the input node and the output nodes array a had before the call
RemovedNodes(a) ==
    {NetsBefore[a].input}
    \cup {NetsBefore[a].outputs[name] : name \in OutputNames(NetsBefore[a])}

AllRemovedNodes == UNION {RemovedNodes(a) : a \in Arrays(hierarchy.nets)}

\* the array has lost its old nodes and the bindings to them
NodesCleared(a) ==
    /\ \A n \in RemovedNodes(a) : n \notin SeqSet(hierarchy.nets[a].nodes)
    /\ hierarchy.nets[a].input = NoObj
    /\ \A name \in OutputNames(NetsBefore[a]) : hierarchy.nets[a].outputs[name] = NoObj

\* no connection and no probe of network n touches a removed node
NoDanglingIn(n) ==
    /\ \A c \in SeqSet(hierarchy.nets[n].connections) :
          c.pre_obj \notin AllRemovedNodes /\ c.post_obj \notin AllRemovedNodes
    /\ n \in Owners(hierarchy.nets) =>
          \A p \in SeqSet(hierarchy.nets[n].probes) : p.target \notin AllRemovedNodes

\* C13: after split_ensemblearrays returns every array has lost its old input
\* and output nodes and the bindings to them, and no connection and no probe
\* of any network of the hierarchy has a removed node as endpoint or target.
C13_NoDanglingReference ==
    pc = "returned" =>
      /\ \A a \in Arrays(hierarchy.nets) : NodesCleared(a)
      /\ \A n \in Members : NoDanglingIn(n)

\* C14: when split_ensemblearrays raises an array-shape error every network
\* of the hierarchy is as it was before the call.
C14_AllOrNothing ==
    (pc = "raised" /\ error \in ArrayShapeErrors) => hierarchy.nets = NetsBefore

----------------------------------------------------------------------------
(* Properties of full_transform                                            *)

FtCalled == fcall.fn = "full_transform" /\ pc # "build"

\* the slices the call applies
AppliedPre == IF fcall.slice_pre THEN fcall.conn.pre_slice ELSE AllSlice
AppliedPost == IF fcall.slice_post THEN fcall.conn.post_slice ELSE AllSlice

Repeats(sl) ==
    /\ ~sl.all
    /\ \E i, j \in 1..Len(sl.idx) : i # j /\ sl.idx[i] = sl.idx[j]

Explicit(sl) == ~sl.all /\ ~Repeats(sl)

\* C15 as stated: a call of full_transform whose applied pre_slice or
\* post_slice is an index sequence with a repeated index raises, whatever
\* the rank of the connection's transform.
C15_Original ==
    (FtCalled /\ (Repeats(AppliedPre) \/ Repeats(AppliedPost)))
        => pc = "raised"

RepeatErrors ==
    {"Input object selection has repeated indices",
     "Output object selection has repeated indices"}

\* C15: a call of full_transform on a connection with a 2-D transform whose
\* applied pre_slice or post_slice is an index sequence with a repeated
\* index raises the repeated-indices error; on a connection with a scalar
\* or 1-D transform no call raises that error.
C15_RepeatsRejected2D ==
    /\ (FtCalled /\ fcall.conn.transform.ndim = 2
            /\ (Repeats(AppliedPre) \/ Repeats(AppliedPost)))
          => (pc = "raised" /\ error \in RepeatErrors)
    /\ (FtCalled /\ fcall.conn.transform.ndim < 2) => error \notin RepeatErrors

\* a 2-D transform with a repeated index in the post_slice alone was refused
C15_Witness ==
    /\ FtCalled /\ fcall.conn.transform.ndim = 2
    /\ Repeats(AppliedPost) /\ ~Repeats(AppliedPre)
    /\ NRows(fcall.conn.transform) = Len(AppliedPost.idx)
    /\ error = "Output object selection has repeated indices"

\* the width of what the transform is applied to, and of what it feeds
FtSizeIn ==
    IF fcall.conn.function = None THEN fcall.conn.pre_obj.size_out
    ELSE FunctionSize(fcall.conn.function)
FtSizeOut == fcall.conn.post_obj.size_in

\* the connection is one nengo.Connection accepts, with slices of one length
\* under a scalar or 1-D transform
FtConforming ==
    /\ valid_connection(fcall.conn)
    /\ fcall.conn.transform.ndim <= 2
    /\ fcall.conn.transform.ndim < 2 =>
          /\ size_mid(fcall.conn) = size_out(fcall.conn)
          /\ ~fcall.conn.pre_slice.all /\ ~fcall.conn.post_slice.all =>
                Len(fcall.conn.pre_slice.idx) = Len(fcall.conn.post_slice.idx)
          /\ NCols(fcall.conn.transform) \in {1, size_out(fcall.conn)}

\* both slices are index sequences without repeats, and both are applied
FtExplicitCase ==
    /\ FtCalled /\ FtConforming
    /\ fcall.slice_pre /\ fcall.slice_post
    /\ Explicit(fcall.conn.pre_slice) /\ Explicit(fcall.conn.post_slice)

IsMatrix(a, m, n) ==
    /\ a.ndim = 2 /\ Len(a.v) = m
    /\ \A r \in 1..m : Len(a.v[r]) = n

\* the value the statement gives entry (i, j) of the result
Selected(i, j) ==
    LET T == fcall.conn.transform
        post_slice == fcall.conn.post_slice.idx
        pre_slice == fcall.conn.pre_slice.idx
    IN IF T.ndim = 2
       THEN IF \E r \in 1..Len(post_slice), c \in 1..Len(pre_slice) :
                   post_slice[r] = i /\ pre_slice[c] = j
            THEN LET rc == CHOOSE rc \in (1..Len(post_slice)) \X (1..Len(pre_slice)) :
                              post_slice[rc[1]] = i /\ pre_slice[rc[2]] = j
                 IN T.v[rc[1]][rc[2]]
            ELSE 0
       ELSE IF \E k \in 1..Len(post_slice) : post_slice[k] = i /\ pre_slice[k] = j
            THEN LET k == CHOOSE k \in 1..Len(post_slice) :
                             post_slice[k] = i /\ pre_slice[k] = j
                 IN IF NCols(T) = 1 THEN T.v[1][1] ELSE T.v[1][k]
            ELSE 0

PlacedAsSelected ==
    /\ pc = "returned"
    /\ IsMatrix(fcall.result, FtSizeOut, FtSizeIn)
    /\ \A i \in 1..FtSizeOut, j \in 1..FtSizeIn :
          fcall.result.v[i][j] = Selected(i, j)

\* C16: for index-sequence slices without repeats the result is the zero
\* matrix of shape (size_out, size_in) with the transform's values at the
\* selected places; with both slices "all" a 2-D transform comes back
\* unchanged; the connection is as it was.
C16_PlacesSelected ==
    /\ FtExplicitCase => PlacedAsSelected
    /\ (FtCalled /\ AppliedPre.all /\ AppliedPost.all
            /\ fcall.conn.transform.ndim = 2) =>
          (pc = "returned" /\ fcall.result = fcall.conn.transform)
    /\ FtCalled => fcall.conn = fcall.conn_before

\* the same for connections that compute no function
C16_PlacesSelectedNoFunction ==
    /\ (FtExplicitCase /\ fcall.conn.function = None) => PlacedAsSelected
    /\ (FtCalled /\ AppliedPre.all /\ AppliedPost.all
            /\ fcall.conn.transform.ndim = 2) =>
          (pc = "returned" /\ fcall.result = fcall.conn.transform)
    /\ FtCalled => fcall.conn = fcall.conn_before

----------------------------------------------------------------------------
(* Properties of find_all_io                                               *)

IoCalled == fcall.fn = "find_all_io" /\ pc = "returned"

\* C17: for every object o, inputs[o] is the subsequence of the connections
\* whose post_obj is o and outputs[o] the subsequence whose pre_obj is o, in
\* the order of the list given; an object without connections has the empty
\* sequence under both.
C17_AdjacencyLists ==
    IoCalled =>
        \A o \in ObjNames :
            /\ fcall.inputs[o] =
                  SelectSeq(fcall.connections, LAMBDA c : c.post_obj.name = o)
            /\ fcall.outputs[o] =
                  SelectSeq(fcall.connections, LAMBDA c : c.pre_obj.name = o)
            /\ (\A k \in 1..Len(fcall.connections) :
                   fcall.connections[k].post_obj.name # o
                   /\ fcall.connections[k].pre_obj.name # o)
               => (fcall.inputs[o] = <<>> /\ fcall.outputs[o] = <<>>)

\* a self-connection of P between two connections into P from E1, and N1
\* left without any connection
C17_Witness ==
    /\ IoCalled
    /\ Len(fcall.connections) = 3
    /\ Len(fcall.inputs["P"]) = 3 /\ Len(fcall.outputs["P"]) = 1
    /\ fcall.outputs["P"][1] = fcall.connections[2]
    /\ fcall.inputs["P"][2] = fcall.connections[2]
    /\ Len(fcall.outputs["E1"]) = 2
    /\ fcall.inputs["N1"] = <<>> /\ fcall.outputs["N1"] = <<>>

----------------------------------------------------------------------------
(* Properties of objs_and_connections                                      *)

FlatCalled == fcall.fn = "objs_and_connections" /\ pc = "returned"

\* the network reached from net by taking the path[1]-th sub-network, then
\* the path[2]-th of that one, and so on
RECURSIVE NetAt(_, _)
NetAt(net, path) ==
    IF path = <<>> THEN net ELSE NetAt(net.networks[Head(path)], Tail(path))

RECURSIVE IsPath(_, _)
IsPath(net, path) ==
    \/ path = <<>>
    \/ /\ Head(path) \in 1..Len(net.networks)
       /\ IsPath(net.networks[Head(path)], Tail(path))

Paths(net) ==
    {path \in UNION {[1..n -> 1..2] : n \in 0..2} : IsPath(net, path)}

\* p comes before q in a depth-first walk: p leads to q, or p turns to an
\* earlier sub-network where the two part
DepthFirstBefore(p, q) ==
    \/ Len(p) < Len(q) /\ \A i \in 1..Len(p) : p[i] = q[i]
    \/ \E i \in 1..Len(p) :
          /\ i <= Len(q)
          /\ \A j \in 1..(i - 1) : p[j] = q[j]
          /\ p[i] < q[i]

\* the networks of the hierarchy in depth-first order
Walk(net) ==
    [k \in 1..Cardinality(Paths(net)) |->
        NetAt(net, CHOOSE p \in Paths(net) :
                      Cardinality({q \in Paths(net) : DepthFirstBefore(q, p)}) = k - 1)]

\* the sequences of seqs, from the k-th on, one after the other
RECURSIVE Chain(_, _)
Chain(seqs, k) ==
    IF k > Len(seqs) THEN <<>> ELSE seqs[k] \o Chain(seqs, k + 1)

EnsemblesThenNodes(net) == net.ensembles \o net.nodes

WalkObjs(net) ==
    Chain([k \in 1..Len(Walk(net)) |-> EnsemblesThenNodes(Walk(net)[k])], 1)
WalkConnections(net) ==
    Chain([k \in 1..Len(Walk(net)) |-> Walk(net)[k].connections], 1)

NoRepeats(seq) == Cardinality(SeqSet(seq)) = Len(seq)

\* C18: the objects returned are, network after network in depth-first
\* order, each network's ensembles followed by its nodes, and the
\* connections returned are the networks' connections in the same order;
\* every object and connection of the hierarchy is there exactly once.
C18_FlattenedInOrder ==
    FlatCalled =>
        /\ fcall.objs = WalkObjs(fcall.network)
        /\ fcall.connections = WalkConnections(fcall.network)
        /\ NoRepeats(fcall.objs) /\ NoRepeats(fcall.connections)
        /\ Len(fcall.objs) =
              SetSum(Paths(fcall.network),
                     [p \in Paths(fcall.network) |->
                         Len(EnsemblesThenNodes(NetAt(fcall.network, p)))])
        /\ Len(fcall.connections) =
              SetSum(Paths(fcall.network),
                     [p \in Paths(fcall.network) |->
                         Len(NetAt(fcall.network, p).connections)])

\* a parent with 1 ensemble and 1 connection holding a sub-network with 2
\* ensembles and 1 connection: 3 objects and 2 connections
C18_Witness ==
    /\ FlatCalled
    /\ Len(fcall.network.ensembles) = 1 /\ fcall.network.nodes = <<>>
    /\ Len(fcall.network.connections) = 1
    /\ Len(fcall.network.networks) = 1
    /\ Len(fcall.network.networks[1].ensembles) = 2
    /\ fcall.network.networks[1].nodes = <<>>
    /\ Len(fcall.network.networks[1].connections) = 1
    /\ fcall.network.networks[1].networks = <<>>
    /\ Len(fcall.objs) = 3 /\ Len(fcall.connections) = 2
    /\ fcall.objs[1] = fcall.network.ensembles[1]

\* a sub-network's own sub-network is listed before the next sub-network
C18_WitnessDepthFirst ==
    /\ FlatCalled
    /\ Len(fcall.network.networks) = 2
    /\ Len(fcall.network.networks[1].networks) = 1
    /\ Len(fcall.objs) = 2
    /\ fcall.network.networks[1].networks[1].ensembles = <<fcall.objs[1]>>
    /\ fcall.network.networks[2].nodes = <<fcall.objs[2]>>

----------------------------------------------------------------------------
(* Properties of DecoderCache                                              *)

Solved == cache.cache_dir # None /\ cache.last.op = "cached_solver"

\* the files of the call's key that were there when the call was made
Found ==
    {ext \in Exts : cache.last.files_before[<<cache.last.key, ext>>].exists}

\* C19: a call for a key that a miss of this cache object has written, with
\* no shrink or invalidate since, does not invoke the solver and returns
\* what that miss stored; a call that does not invoke the solver found both
\* files of its key, and a call that found one of the two invokes it.
C19_HitAfterMiss ==
    Solved =>
        /\ cache.last.written_before[cache.last.key] # 0 =>
              /\ ~cache.last.invoked
              /\ cache.last.decoders = cache.last.written_before[cache.last.key]
              /\ cache.last.solver_info = cache.last.written_before[cache.last.key]
        /\ ~cache.last.invoked => Found = Exts
        /\ Cardinality(Found) = 1 => cache.last.invoked

\* a hit on what an earlier miss of the same key stored
C19_Witness ==
    /\ Solved
    /\ ~cache.read_only
    /\ cache.last.written_before[cache.last.key] # 0
    /\ ~cache.last.invoked
    /\ cache.last.decoders = cache.last.written_before[cache.last.key]

\* a call that found the decoder file alone and invoked the solver
C19_WitnessOrphan ==
    /\ Solved
    /\ Found = {_DECODER_EXT}
    /\ cache.last.invoked

Shrunk == cache.cache_dir # None /\ cache.last.op = "shrink"

\* the files the eviction loop went over, those it removed and those it kept
Considered == get_files(cache.last.files_before)
Evicted == Considered \ get_files(cache.last.files_loop)
Kept == Considered \cap get_files(cache.last.files_loop)

TotalBytes(files) ==
    SetSum({path \in CacheFiles : files[path].exists},
           [path \in {q \in CacheFiles : files[q].exists} |-> files[path].size])

\* C20: after shrink(limit) the files of the cache take at most limit bytes;
\* every file the eviction loop removed was last accessed no later than
\* every file it kept; the loop removes nothing from a cache that fits.
C20_ShrinkMeetsLimit ==
    Shrunk =>
        /\ TotalBytes(cache.files) <= cache.last.limit
        /\ \A r \in Evicted, k \in Kept :
              cache.last.files_before[r].atime <= cache.last.files_before[k].atime
        /\ TotalBytes(cache.last.files_before) <= cache.last.limit => Evicted = {}

\* the loop removed the older file of a key, kept the others, and the file
\* left alone by it went as an orphan
C20_Witness ==
    /\ Shrunk
    /\ Cardinality(Evicted) = 1
    /\ Cardinality(Kept) = 3
    /\ Cardinality(get_files(cache.files)) = 2
    /\ TotalBytes(cache.files) > 0
    /\ \E r \in Evicted, k \in Kept :
          cache.last.files_before[r].atime < cache.last.files_before[k].atime

----------------------------------------------------------------------------
(* Properties of remove_passthrough_nodes on chains                        *)

\* the connections given are a chain E1 -> P -> ... -> N1, in path order
IsChain ==
    /\ Len(call.connections_before) >= 2
    /\ call.connections_before[1].pre_obj = E1
    /\ call.connections_before[Len(call.connections_before)].post_obj = N1
    /\ \A k \in 1..(Len(call.connections_before) - 1) :
          /\ call.connections_before[k].post_obj
                = call.connections_before[k + 1].pre_obj
          /\ IsPassthroughNode(call.connections_before[k].post_obj)
          /\ call.connections_before[k].post_obj \in SeqSet(call.objs_before)
          /\ \A j \in 1..(Len(call.connections_before) - 1) :
                call.connections_before[j].post_obj
                   = call.connections_before[k].post_obj => j = k
    /\ \A k \in 1..Len(call.connections_before) :
          call.connections_before[k].function = None

\* the product of the chain's first k transforms, the later ones on the left
RECURSIVE ChainProduct(_)
ChainProduct(k) ==
    IF k = 1 THEN WeightMatrix(call.connections_before[1])
    ELSE Product(WeightMatrix(call.connections_before[k]), ChainProduct(k - 1))

ChainSynapses ==
    {k \in 1..Len(call.connections_before) :
        call.connections_before[k].synapse # None}

ChainCase ==
    /\ pc # "build"
    /\ IsChain
    /\ Cardinality(ChainSynapses) <= 1
    /\ ~IsZeroMatrix(ChainProduct(Len(call.connections_before)))

\* C21: a call on a chain E1 -> P1 -> ... -> Pk -> N1 without functions, with
\* at most one synapse and a product that is not zero, returns E1 and N1 and
\* one connection from E1 to N1 that carries the product of the chain's
\* transforms and the chain's synapse, in whatever order the nodes are listed.
C21_ChainCollapses ==
    ChainCase =>
        /\ pc = "returned"
        /\ SeqSet(result_objs) = {E1, N1}
        /\ Len(result_conn) = 1
        /\ result_conn[1].pre_obj = E1
        /\ result_conn[1].post_obj = N1
        /\ result_conn[1].function = None
        /\ WeightMatrix(result_conn[1]) = ChainProduct(Len(call.connections_before))
        /\ result_conn[1].synapse =
              (IF ChainSynapses = {} THEN None
               ELSE call.connections_before[CHOOSE k \in ChainSynapses : TRUE].synapse)

\* three nodes listed against the path (the last of the path first), a
\* synapse in the middle of the chain, and a product that depends on the
\* order of its factors
C21_Witness ==
    /\ ChainCase
    /\ pc = "returned"
    /\ Len(call.connections_before) = 4
    /\ call.objs_before[2] = call.connections_before[3].post_obj
    /\ call.objs_before[4] = call.connections_before[1].post_obj
    /\ call.connections_before[2].synapse # None
    /\ result_conn[1].synapse = call.connections_before[2].synapse
    /\ Product(WeightMatrix(call.connections_before[2]),
               WeightMatrix(call.connections_before[1]))
         # Product(WeightMatrix(call.connections_before[1]),
                   WeightMatrix(call.connections_before[2]))

----------------------------------------------------------------------------
(* How split_ensemblearray assigns the ensembles to the partitions         *)

\* the nodes made for partition p (counted from 0) in place of the input
\* node and of the output node `name`
InputNodeOf(p) == Label(ArrayBefore.input.name, p)
OutputNodeOf(name, p) == Label(ArrayBefore.outputs[name].name, p)

\* every connection of the sequence ends (or starts) at the node named
EntersFrom(conns, node) ==
    conns # <<>> /\ \A c \in SeqSet(conns) : c.pre_obj.name = node
LeavesFor(conns, node) ==
    conns # <<>> /\ \A c \in SeqSet(conns) : c.post_obj.name = node

\* the number of ensembles attached to the nodes of partition p
AttachedTo(p) ==
    Cardinality({k \in EnsembleIndex(array) :
                    EntersFrom(EnsembleInputs(k), InputNodeOf(p))})

SizesBalanced ==
    /\ \A p, q \in 0..(n_splits - 1) :
          AttachedTo(p) - AttachedTo(q) \in {-1, 0, 1}
    /\ SetSum(0..(n_splits - 1), [p \in 0..(n_splits - 1) |-> AttachedTo(p)])
          = ArrayBefore.n_ensembles

\* C22 as stated: the ensemble at index i (counted from 0) is attached to
\* the input node and the output nodes of partition i mod n_splits; the
\* partitions' sizes differ by at most one and sum to n_ensembles.
C22_Original ==
    pc = "returned" =>
        /\ \A k \in EnsembleIndex(array) :
              /\ EntersFrom(EnsembleInputs(k), InputNodeOf((k - 1) % n_splits))
              /\ \A name \in OutputNames(ArrayBefore) :
                    LeavesFor(EnsembleOutputs(k, name),
                              OutputNodeOf(name, (k - 1) % n_splits))
        /\ SizesBalanced

\* the first ensemble of block p: the blocks are as long as the partitions
\* are large, the larger ones first
BlockStart(p, n) ==
    p * (n \div n_splits) + (IF p < n % n_splits THEN p ELSE n % n_splits)

BlockOf(i, n) ==
    CHOOSE p \in 0..(n_splits - 1) : BlockStart(p, n) <= i /\ i < BlockStart(p + 1, n)

\* C22: the ensembles are assigned in consecutive blocks: with sizes that
\* differ by at most one and sum to n_ensembles, the larger ones first, the
\* ensemble at index i is attached to the input node and the output nodes of
\* the partition whose block holds i.
C22_ConsecutiveBlocks ==
    pc = "returned" =>
        /\ \A k \in EnsembleIndex(array) :
              /\ EntersFrom(EnsembleInputs(k),
                            InputNodeOf(BlockOf(k - 1, ArrayBefore.n_ensembles)))
              /\ \A name \in OutputNames(ArrayBefore) :
                    LeavesFor(EnsembleOutputs(k, name),
                              OutputNodeOf(name, BlockOf(k - 1, ArrayBefore.n_ensembles)))
        /\ SizesBalanced

\* three ensembles: the second one shares the first partition with the
\* first, and the third is alone in the second
C22_Witness ==
    /\ pc = "returned"
    /\ Len(array.ea_ensembles) = 3
    /\ EntersFrom(EnsembleInputs(1), InputNodeOf(0))
    /\ EntersFrom(EnsembleInputs(2), InputNodeOf(0))
    /\ EntersFrom(EnsembleInputs(3), InputNodeOf(1))
    /\ \A name \in OutputNames(ArrayBefore) :
          LeavesFor(EnsembleOutputs(2, name), OutputNodeOf(name, 0))

----------------------------------------------------------------------------
(* full_transform and transforms of rank 3                                 *)

RankError == "Transforms with > 2 dims not supported"

\* C23: a call of full_transform on a connection whose transform has more
\* than two dimensions raises the rank error, whatever the slices and the
\* flags are.
C23_RankRejected ==
    (FtCalled /\ fcall.conn.transform.ndim > 2)
        => (pc = "raised" /\ error = RankError)

\* the calls that do raise it: all but those with both applied slices "all",
\* a single element and allow_scalars
C23_RankRejectedUnlessSingle ==
    (FtCalled /\ fcall.conn.transform.ndim > 2)
        => IF AppliedPre.all /\ AppliedPost.all /\ fcall.allow_scalars
              /\ ArraySize(fcall.conn.transform) = 1
           THEN pc = "returned" /\ fcall.result = fcall.conn.transform
           ELSE pc = "raised" /\ error = RankError

----------------------------------------------------------------------------
(* Properties of DecoderCache.remove_orphans                               *)

\* remove_orphans has just run: on its own, or as the last step of shrink
OrphansRemoved ==
    cache.cache_dir # None /\ cache.last.op \in {"remove_orphans", "shrink"}

\* the directory remove_orphans started from
OrphansBefore ==
    IF cache.last.op = "shrink" THEN cache.last.files_loop
    ELSE cache.last.files_before

Partner(path) ==
    <<path[1], IF path[2] = _DECODER_EXT THEN _SOLVER_INFO_EXT ELSE _DECODER_EXT>>

\* C24: after remove_orphans, also as the last step of shrink, every key has
\* both of its files or neither, and every file whose partner was there is
\* still there, as it was.
C24_NoOrphansLeft ==
    OrphansRemoved =>
        /\ \A key \in Keys :
              cache.files[<<key, _DECODER_EXT>>].exists
                 <=> cache.files[<<key, _SOLVER_INFO_EXT>>].exists
        /\ \A path \in CacheFiles :
              (OrphansBefore[path].exists /\ OrphansBefore[Partner(path)].exists)
                 => cache.files[path] = OrphansBefore[path]

\* remove_orphans, called on its own, removed a decoder file and a solver
\* info file that stood alone and kept nothing else
C24_Witness ==
    /\ cache.cache_dir # None
    /\ cache.last.op = "remove_orphans"
    /\ get_files(cache.last.files_before) = {<<"k1", _DECODER_EXT>>, <<"k2", _SOLVER_INFO_EXT>>}
    /\ get_files(cache.files) = {}

\* remove_orphans kept a pair next to an orphan it removed
C24_WitnessPairKept ==
    /\ cache.cache_dir # None
    /\ cache.last.op = "remove_orphans"
    /\ Cardinality(get_files(cache.last.files_before)) = 3
    /\ Cardinality(get_files(cache.files)) = 2

----------------------------------------------------------------------------
(* remove_passthrough_nodes and the order of objs                          *)

BothCalled == pc # "build" /\ fcall.fn = "remove_passthrough_nodes"

\* what a connection is, leaving aside which object it is
Signature(conns) ==
    {<<c.pre_obj, c.post_obj, c.transform, c.synapse, c.function>> :
        c \in SeqSet(conns)}

SameResult ==
    /\ Signature(result_conn) = Signature(fcall.result_conn)
    /\ SeqSet(result_objs) = SeqSet(fcall.result_objs)

\* C25: the call on objs and the call on the same objects in the other
\* order, with the same connections, both raise or both return, and when
\* they return they return the same connections and the same objects.
C25_OrderIndependent ==
    BothCalled =>
        \/ pc = "raised" /\ fcall.error # None
        \/ pc = "returned" /\ fcall.error = None /\ SameResult

\* when both calls return they return the same
C25_SameWhenBothReturn ==
    (BothCalled /\ pc = "returned" /\ fcall.error = None) => SameResult

\* no function anywhere: E1 -> P and Q -> N1 with a synapse, and the
\* product of the first two transforms zero
SynapsesOnly ==
    /\ Len(call.connections_before) = 3
    /\ \A k \in 1..3 : call.connections_before[k].function = None
    /\ call.connections_before[1].synapse # None
    /\ call.connections_before[2].synapse = None
    /\ call.connections_before[3].synapse # None

\* on such a network too both calls raise or both return
C25_OrderIndependentSynapsesOnly ==
    (BothCalled /\ SynapsesOnly) => (pc = "raised" <=> fcall.error # None)

====
